---- MODULE Spec2Model ----
(***************************************************************************)
(* Model of the deploy orchestration and scan/deduplication core of        *)
(* src-tauri/src/main.rs.                                                  *)
(*                                                                         *)
(* The orchestrator commands (deploy_resource, remove_resource,            *)
(* diff_resource) are modelled one external-tool call per step: every      *)
(* action is the code from the return of the previous subprocess up to and *)
(* including the next one.  The cluster and the unit's directory are the   *)
(* environment the subprocesses read and change.                           *)
(*                                                                         *)
(* Strings are TLA+ strings, format!() is string concatenation, and a      *)
(* command line (a commands_run entry, or the argv of a subprocess) is the *)
(* sequence of its space-separated words.                                  *)
(***************************************************************************)
EXTENDS Integers, Sequences, FiniteSets, TLC

VARIABLES
    nsExists,        \* cluster: the target namespace exists
    installed,       \* cluster: the unit's release / manifests are present
    renderedExists,  \* disk: <resource_dir>/rendered exists
    diskFiles,       \* disk: the authored files of the unit's directory
    pc,              \* position of the running command
    inv,             \* arguments of the running command
    issued,          \* subprocesses spawned by the running command, in order
    commands_run,    \* DeployResult.commands_run being accumulated
    warnings,        \* lines the running command wrote with eprintln!
    helmErr,         \* diff_resource: stderr of the helm diff call
    result,          \* value returned by the command
    lastRemove,      \* the remove_resource run that ended just before this command
    scanPc,          \* scan_yaml_files: "idle", or "returned" once it has returned
    nodes,           \* scan_yaml_files: node list collected by scan_dir
    scanResult,      \* scan_yaml_files: returned ScanResult.nodes
    genPc,           \* generate_field / generate_infra: "idle" or "returned"
    genInput,        \* the config given to the generator, and the write that fails
    unitDir,         \* disk: the generated unit's directory, file name to content
    genResult,       \* the returned GenerateResult
    patchPc,         \* apply_replicas: "idle" or "returned"
    patchFile,       \* disk: the content of the manifest file apply_replicas patches
    patchCall,       \* the apply_replicas call that has just returned
    patchPrev,       \* the patch_replicas_in_file run before this call
    splitPc,         \* split_rendered_manifests: "idle" or "returned"
    raw,             \* the rendered text given to split_rendered_manifests
    manifests,       \* the (filename, content) pairs it returned
    renderedDir,     \* disk: <component_dir>/rendered, whether it exists and its files
    renderPc,        \* per render operation: the call it is about to make
    renderCall,      \* per render operation: the command, the text helm template prints, its split
    listing,         \* per render operation: the names read_dir listed, not yet visited
    pending,         \* per render operation: the manifests not yet written
    renderResult,    \* per render operation: the HelmRenderResult fields so far
    sentinelBefore,  \* per render operation: .gitkeep was in rendered/ when it started
    diskFails,       \* disk: a call on rendered/ may fail (full, read-only, file in use)
    watchPc,         \* watch_project: the call it is about to make
    watchCall,       \* watch_project: project_path
    watcher,         \* watch_project: the local `watcher`, 0 before it is created
    state,           \* WatcherState: the stored watcher, 0 for None
    watching,        \* OS: the watchers that are registered and deliver events
    watchersMade,    \* the number of watchers created so far
    debounce,        \* per watcher: its map from path to the Instant last inserted
    clock,           \* Instant::now(), in milliseconds
    delivered,       \* the number of events delivered so far
    lastEvent,       \* the event delivered last, with its watcher and its time
    emitted,         \* the yaml-file-changed events emitted, in order
    watchResult,     \* what watch_project returned
    classPc,         \* try_parse_helm_node / parse_yaml_doc: "idle" or "returned"
    classInput,      \* what the directory or the document given to it holds
    classNode,       \* the Option<YamlNode> it returned
    walkPc,          \* scan_dir on a project tree: "idle" or "returned"
    walkInput,       \* what the tree holds and which parts of it can be read
    walk,            \* nodes and errors as scan_dir left them, and where it went
    delPc,           \* delete_field_files: "idle" or "returned"
    delInput,        \* its file_paths and what kubectl and the disk answer to each
    delDisk,         \* the files and the directories on the disk
    delResult,       \* the DeleteResult, with the calls made on the way
    imgPc,           \* deploy_image_inner: "idle", the manifest it is about to apply, "returned"
    imgReq,          \* the DeployImageRequest
    imgManifests,    \* the manifests built from it
    imgCalls,        \* the calls of kubectl made so far, with their outcome
    imgAcc,          \* all_stdout, all_stderr and overall_success
    imgResult        \* the DeployImageResult

orchVars == <<nsExists, installed, renderedExists, diskFiles, pc, inv, issued,
              commands_run, warnings, helmErr, result, lastRemove>>

scanVars == <<scanPc, nodes, scanResult>>

genVars == <<genPc, genInput, unitDir, genResult>>

patchVars == <<patchPc, patchFile, patchCall, patchPrev>>

splitVars == <<splitPc, raw, manifests>>

renderVars == <<renderedDir, renderPc, renderCall, listing, pending, renderResult,
                sentinelBefore, diskFails>>

watchVars == <<watchPc, watchCall, watcher, state, watching, watchersMade, debounce,
               clock,
               delivered, lastEvent, emitted, watchResult>>

\* the parts added after the renders
classVars == <<classPc, classInput, classNode>>

walkVars == <<walkPc, walkInput, walk>>

delVars == <<delPc, delInput, delDisk, delResult>>

imgVars == <<imgPc, imgReq, imgManifests, imgCalls, imgAcc, imgResult>>

laterVars == <<watchVars, classVars, walkVars, delVars, imgVars>>

vars == <<orchVars, scanVars, genVars, patchVars, splitVars, renderVars, laterVars>>

\* what each part of the program leaves alone
outsideOrch == <<scanVars, genVars, patchVars, splitVars, renderVars, laterVars>>

outsideScan == <<orchVars, genVars, patchVars, splitVars, renderVars, laterVars>>

outsideGen == <<orchVars, scanVars, patchVars, splitVars, renderVars, laterVars>>

outsidePatch == <<orchVars, scanVars, genVars, splitVars, renderVars, laterVars>>

outsideSplit == <<orchVars, scanVars, genVars, patchVars, renderVars, laterVars>>

outsideRender == <<orchVars, scanVars, genVars, patchVars, splitVars, laterVars>>

earlierVars == <<orchVars, scanVars, genVars, patchVars, splitVars, renderVars>>

outsideWatch == <<earlierVars, classVars, walkVars, delVars, imgVars>>

outsideClass == <<earlierVars, watchVars, walkVars, delVars, imgVars>>

outsideWalk == <<earlierVars, watchVars, classVars, delVars, imgVars>>

outsideDel == <<earlierVars, watchVars, classVars, walkVars, imgVars>>

outsideImg == <<earlierVars, watchVars, classVars, walkVars, delVars>>

-----------------------------------------------------------------------------
(* Values *)

None == "None"

NoResult == [kind |-> "none"]

NoInv == [op |-> "none", source |-> "raw", helm_release |-> None,
          helm_repo_name |-> None, helm_repo_url |-> None, values_file |-> None]

resource_id == "web"

resource_dir == "/p/web"

namespace == "prod"

\* Path::join
Join(dir, name) == dir \o "/" \o name

Sources == {"helm", "raw"}

OptRelease == {None, "rel"}

OptRepoName == {None, "bitnami"}

OptRepoUrl == {None, "https://charts"}

OptValues == {None, "/p/custom.yaml"}

UnitFiles == {"namespace.yaml", "deployment.yaml", "helm/Chart.yaml"}

-----------------------------------------------------------------------------
(* External tools *)

\* Command::output() of a tool that could not be spawned (Err(e) arm)
SpawnFailure(tool) ==
    [stdout |-> "", stderr |-> tool \o " not found: os error", success |-> FALSE,
     cause |-> "spawn"]

\* exit status and captured streams of a tool that ran
Ran(out, err, ok) ==
    [stdout |-> out, stderr |-> err, success |-> ok,
     cause |-> IF ok THEN "ok" ELSE "exit"]

\* the tool ran and refused because the object it was asked for is absent
AbsentFailure ==
    [stdout |-> "", stderr |-> "not found", success |-> FALSE, cause |-> "notfound"]

IsDiff(args) == args # <<>> /\ args[1] = "diff"

HasWord(args, w) == \E i \in 1..Len(args) : args[i] = w

IgnoresNotFound(args) ==
    HasWord(args, "--ignore-not-found") \/ HasWord(args, "--ignore-not-found=true")

IsGetNs(args) == Len(args) >= 2 /\ args[1] = "get" /\ args[2] = "namespace"

IsCreateNs(args) == Len(args) >= 2 /\ args[1] = "create" /\ args[2] = "namespace"

IsRemoval(args) == args # <<>> /\ args[1] \in {"uninstall", "delete"}

IsInstall(args) == args # <<>> /\ args[1] \in {"upgrade", "apply"}

\* What a subprocess can answer in the current cluster state.
Responses(tool, args) ==
    LET streams == IF IsDiff(args)
                   THEN {Ran(o, e, s) : o \in {"", "diff"}, e \in {"", "err"},
                                        s \in {TRUE, FALSE}}
                   ELSE {Ran("out", "", TRUE), Ran("", "err", FALSE)}
        refused == \/ IsGetNs(args) /\ ~nsExists
                   \/ IsRemoval(args) /\ ~installed /\ ~IgnoresNotFound(args)
        blocked == refused \/ (IsCreateNs(args) /\ nsExists)
    IN  {o \in streams : o.success => ~blocked}
          \cup {SpawnFailure(tool)}
          \cup (IF refused THEN {AbsentFailure} ELSE {})

\* run_kubectl_output / run_helm_output: (stdout, stderr, success)
run_output(o) == o

\* run_kubectl / run_helm: Ok(stdout) or Err(stderr)
run_result(o) ==
    IF o.success THEN [ok |-> TRUE, val |-> o.stdout]
    ELSE [ok |-> FALSE, val |-> o.stderr]

\* one spawned subprocess: its command line, its answer, and what the cluster
\* held when it ran
Call(tool, args, cwd, o) ==
    [tool |-> tool, args |-> args, cwd |-> cwd, out |-> o,
     world |-> [ns |-> nsExists, unit |-> installed]]

\* the cluster after a subprocess returned
NsAfter(args, o) ==
    IF o.success /\ (IsCreateNs(args) \/ (args # <<>> /\ args[1] = "upgrade"))
    THEN TRUE ELSE nsExists

InstalledAfter(args, o) ==
    IF o.success /\ IsInstall(args) THEN TRUE
    ELSE IF o.success /\ IsRemoval(args) THEN FALSE
    ELSE installed

Spawn(tool, args, cwd, o) ==
    /\ o \in Responses(tool, args)
    /\ UNCHANGED outsideOrch
    /\ issued' = Append(issued, Call(tool, args, cwd, o))
    /\ nsExists' = NsAfter(args, o)
    /\ installed' = InstalledAfter(args, o)

-----------------------------------------------------------------------------
(* deploy_resource *)

helm_dir == Join(resource_dir, "helm")

Release == IF inv.helm_release = None THEN resource_id ELSE inv.helm_release

ValuesPath == IF inv.values_file = None THEN Join(helm_dir, "values.yaml")
              ELSE inv.values_file

DeployResult(out, err, ok, cmds) ==
    [kind |-> "deploy", resource_id |-> resource_id, namespace |-> namespace,
     source |-> inv.source, stdout |-> out, stderr |-> err, success |-> ok,
     commands_run |-> cmds]

NsEntry ==
    <<"kubectl", "get", "namespace", namespace, "||",
      "kubectl", "create", "namespace", namespace>>

RepoAddEntry == <<"helm", "repo", "add", inv.helm_repo_name, inv.helm_repo_url>>

RepoUpdateEntry == <<"helm", "repo", "update">>

DepEntry == <<"helm", "dependency", "update", helm_dir>>

TemplateArgs ==
    <<"template", Release, ".", "--namespace", namespace,
      "--values", ValuesPath, "--include-crds">>

InstallArgs ==
    <<"upgrade", "--install", Release, ".", "--namespace", namespace,
      "--create-namespace", "--values", ValuesPath, "--atomic=false">>

ApplyArgs == <<"apply", "-f", resource_dir, "--recursive">>

RepoSupplied_Either == inv.helm_repo_name # None \/ inv.helm_repo_url # None

\* if let (Some(repo_name), Some(repo_url)) = (&helm_repo_name, &helm_repo_url)
RepoSupplied == inv.helm_repo_name # None /\ inv.helm_repo_url # None

\* where deploy_resource_inner goes once ensure_namespace returned Ok
AfterNamespace ==
    IF inv.source = "helm"
    THEN IF RepoSupplied THEN "repo_add" ELSE "dep_update"
    ELSE "apply"

Idle == pc = "idle"

\* the command lines of a list of subprocesses, without their answers
CommandLines(calls) ==
    [i \in 1..Len(calls) |->
        [tool |-> calls[i].tool, args |-> calls[i].args, cwd |-> calls[i].cwd]]

\* the remove_resource run that has just ended, if the command that ended is one
EndedRemove ==
    IF pc = "done" /\ inv.op = "remove"
    THEN [source |-> inv.source, helm_release |-> inv.helm_release,
          cmds |-> CommandLines(issued), success |-> result.success]
    ELSE NoResult

Begin(op, src, rel, rn, ru, vf, first) ==
    /\ Idle
    /\ inv' = [op |-> op, source |-> src, helm_release |-> rel,
               helm_repo_name |-> rn, helm_repo_url |-> ru, values_file |-> vf]
    /\ pc' = first
    /\ issued' = <<>>
    /\ commands_run' = <<>>
    /\ warnings' = <<>>
    /\ helmErr' = ""
    /\ result' = NoResult
    /\ lastRemove' = IF op = "remove" THEN lastRemove ELSE NoResult
    /\ UNCHANGED <<nsExists, installed, renderedExists, diskFiles>>
    /\ UNCHANGED outsideOrch

DeployResourceCall ==
    \E src \in Sources, rel \in OptRelease, rn \in OptRepoName,
       ru \in OptRepoUrl, vf \in OptValues :
        Begin("deploy", src, rel, rn, ru, vf, "ns_get")

\* ensure_namespace: kubectl get namespace
EnsureNamespaceGet ==
    /\ pc = "ns_get"
    /\ \E o \in Responses("kubectl", <<"get", "namespace", namespace>>) :
        /\ Spawn("kubectl", <<"get", "namespace", namespace>>, ".", o)
        /\ IF run_result(o).ok
           THEN /\ commands_run' = Append(commands_run, NsEntry)
                /\ pc' = AfterNamespace
           ELSE /\ pc' = "ns_create"
                /\ UNCHANGED commands_run
    /\ UNCHANGED <<renderedExists, diskFiles, inv, warnings, helmErr, result, lastRemove>>

NamespaceFatal_Ignored(r) == FALSE

\* deploy_resource_inner: the Err arm of match ensure_namespace(..)
NamespaceFatal(r) == ~r.ok

\* ensure_namespace: kubectl create namespace, and the match on its result
EnsureNamespaceCreate ==
    /\ pc = "ns_create"
    /\ \E o \in Responses("kubectl", <<"create", "namespace", namespace>>) :
        /\ Spawn("kubectl", <<"create", "namespace", namespace>>, ".", o)
        /\ IF NamespaceFatal(run_result(o))
           THEN /\ result' = DeployResult("", run_result(o).val, FALSE, commands_run)
                /\ pc' = "done"
                /\ UNCHANGED commands_run
           ELSE /\ commands_run' = Append(commands_run, NsEntry)
                /\ pc' = AfterNamespace
                /\ UNCHANGED result
    /\ UNCHANGED <<renderedExists, diskFiles, inv, warnings, helmErr, lastRemove>>

\* Step 1: helm repo add (result dropped)
RepoAdd ==
    /\ pc = "repo_add"
    /\ commands_run' = Append(commands_run, RepoAddEntry)
    /\ \E o \in Responses("helm", <<"repo", "add", inv.helm_repo_name, inv.helm_repo_url>>) :
        Spawn("helm", <<"repo", "add", inv.helm_repo_name, inv.helm_repo_url>>,
              resource_dir, o)
    /\ pc' = "repo_update"
    /\ UNCHANGED <<renderedExists, diskFiles, inv, warnings, helmErr, result, lastRemove>>

\* Step 1: helm repo update (result dropped), logged after the call
RepoUpdate ==
    /\ pc = "repo_update"
    /\ \E o \in Responses("helm", <<"repo", "update">>) :
        Spawn("helm", <<"repo", "update">>, resource_dir, o)
    /\ commands_run' = Append(commands_run, RepoUpdateEntry)
    /\ pc' = "dep_update"
    /\ UNCHANGED <<renderedExists, diskFiles, inv, warnings, helmErr, result, lastRemove>>

DependencyFatal_Ignored(r) == FALSE

\* if let Err(e) = run_helm(&["dependency", "update", "."], &helm_dir)
DependencyFatal(r) == ~r.ok

\* Step 2: helm dependency update
DependencyUpdate ==
    /\ pc = "dep_update"
    /\ \E o \in Responses("helm", <<"dependency", "update", ".">>) :
        /\ Spawn("helm", <<"dependency", "update", ".">>, helm_dir, o)
        /\ IF DependencyFatal(run_result(o))
           THEN /\ result' = DeployResult("",
                        "helm dependency update failed: " \o run_result(o).val,
                        FALSE, Append(commands_run, DepEntry))
                /\ pc' = "done"
           ELSE /\ pc' = "template"
                /\ UNCHANGED result
    /\ commands_run' = Append(commands_run, DepEntry)
    /\ UNCHANGED <<renderedExists, diskFiles, inv, warnings, helmErr, lastRemove>>

\* Step 3 with a failed render returned as the result
Template_FatalOnError ==
    /\ pc = "template"
    /\ commands_run' = Append(commands_run, <<"helm">> \o TemplateArgs)
    /\ \E o \in Responses("helm", TemplateArgs) :
        /\ Spawn("helm", TemplateArgs, helm_dir, o)
        /\ IF run_result(o).ok
           THEN /\ renderedExists' \in {TRUE, renderedExists}
                /\ pc' = "install"
                /\ UNCHANGED <<warnings, result>>
           ELSE /\ result' = DeployResult("", run_result(o).val, FALSE, commands_run')
                /\ pc' = "done"
                /\ UNCHANGED <<warnings, renderedExists>>
    /\ UNCHANGED <<diskFiles, inv, helmErr, lastRemove>>

\* Step 3: helm template, rendered/ rewritten on success
Template ==
    /\ pc = "template"
    /\ commands_run' = Append(commands_run, <<"helm">> \o TemplateArgs)
    /\ \E o \in Responses("helm", TemplateArgs) :
        /\ Spawn("helm", TemplateArgs, helm_dir, o)
        /\ IF run_result(o).ok
           THEN \* let _ = fs::create_dir_all(&rendered_dir)
                /\ renderedExists' \in {TRUE, renderedExists}
                /\ UNCHANGED warnings
           ELSE /\ warnings' = Append(warnings,
                        "helm template warning: " \o run_result(o).val)
                /\ UNCHANGED renderedExists
    /\ pc' = "install"
    /\ UNCHANGED <<diskFiles, inv, helmErr, result, lastRemove>>

\* Step 4: helm upgrade --install
Install ==
    /\ pc = "install"
    /\ commands_run' = Append(commands_run, <<"helm">> \o InstallArgs)
    /\ \E o \in Responses("helm", InstallArgs) :
        /\ Spawn("helm", InstallArgs, helm_dir, o)
        /\ result' = DeployResult(run_output(o).stdout, run_output(o).stderr,
                                  run_output(o).success, commands_run')
    /\ pc' = "done"
    /\ UNCHANGED <<renderedExists, diskFiles, inv, warnings, helmErr, lastRemove>>

\* Raw YAML: kubectl apply -f <dir> --recursive
Apply ==
    /\ pc = "apply"
    /\ commands_run' = Append(commands_run, <<"kubectl">> \o ApplyArgs)
    /\ \E o \in Responses("kubectl", ApplyArgs) :
        /\ Spawn("kubectl", ApplyArgs, ".", o)
        /\ result' = DeployResult(run_output(o).stdout, run_output(o).stderr,
                                  run_output(o).success, commands_run')
    /\ pc' = "done"
    /\ UNCHANGED <<renderedExists, diskFiles, inv, warnings, helmErr, lastRemove>>

-----------------------------------------------------------------------------
(* remove_resource *)

HelmUninstallArgs_NoIgnore == <<"uninstall", Release, "--namespace", namespace>>

HelmUninstallArgs == <<"uninstall", Release, "--namespace", namespace, "--ignore-not-found">>

KubectlDeleteArgs == <<"delete", "-f", resource_dir, "--recursive", "--ignore-not-found=true">>

RemoveResourceCall ==
    \E src \in Sources, rel \in OptRelease :
        Begin("remove", src, rel, None, None, None, "remove")

RemoveResource ==
    /\ pc = "remove"
    /\ IF inv.source = "helm"
       THEN /\ commands_run' = Append(commands_run, <<"helm">> \o HelmUninstallArgs)
            /\ \E o \in Responses("helm", HelmUninstallArgs) :
                /\ Spawn("helm", HelmUninstallArgs, resource_dir, o)
                /\ result' = DeployResult(run_output(o).stdout, run_output(o).stderr,
                                          run_output(o).success, commands_run')
       ELSE /\ commands_run' = Append(commands_run, <<"kubectl">> \o KubectlDeleteArgs)
            /\ \E o \in Responses("kubectl", KubectlDeleteArgs) :
                /\ Spawn("kubectl", KubectlDeleteArgs, ".", o)
                /\ result' = DeployResult(run_output(o).stdout, run_output(o).stderr,
                                          run_output(o).success, commands_run')
    /\ pc' = "done"
    /\ UNCHANGED <<renderedExists, diskFiles, inv, warnings, helmErr, lastRemove>>

-----------------------------------------------------------------------------
(* diff_resource *)

DiffResult(diff, changes, error) ==
    [kind |-> "diff", resource_id |-> resource_id, diff |-> diff,
     has_changes |-> changes, error |-> error]

HelmDiffArgs ==
    <<"diff", "upgrade", Release, ".", "--namespace", namespace,
      "--values", ValuesPath, "--allow-unreleased">>

rendered_dir == Join(resource_dir, "rendered")

RenderedDiffArgs == <<"diff", "-f", rendered_dir>>

RawDiffArgs == <<"diff", "-f", resource_dir, "--recursive">>

DiffResourceCall ==
    \E src \in Sources, rel \in OptRelease, vf \in OptValues :
        Begin("diff", src, rel, None, None, vf,
              IF src = "helm" THEN "diff_helm" ELSE "diff_raw")

HelmDiffAnswered_SuccessOnly(o) == o.success

\* if success || !stdout.is_empty()
HelmDiffAnswered(o) == o.success \/ o.stdout # ""

\* helm diff upgrade, and the choice of the fallback
DiffHelm ==
    /\ pc = "diff_helm"
    /\ \E o \in Responses("helm", HelmDiffArgs) :
        /\ Spawn("helm", HelmDiffArgs, helm_dir, o)
        /\ IF HelmDiffAnswered(run_output(o))
           THEN /\ result' = DiffResult(run_output(o).stdout, TRUE, None)
                /\ pc' = "done"
                /\ UNCHANGED helmErr
           ELSE IF renderedExists
           THEN /\ helmErr' = run_output(o).stderr
                /\ pc' = "diff_rendered"
                /\ UNCHANGED result
           ELSE /\ result' = DiffResult("", FALSE,
                        "helm diff failed and no rendered/ dir: " \o run_output(o).stderr)
                /\ pc' = "done"
                /\ UNCHANGED helmErr
    /\ UNCHANGED <<renderedExists, diskFiles, inv, commands_run, warnings, lastRemove>>

\* Fallback: kubectl diff -f rendered/
DiffRendered ==
    /\ pc = "diff_rendered"
    /\ \E o \in Responses("kubectl", RenderedDiffArgs) :
        /\ Spawn("kubectl", RenderedDiffArgs, ".", o)
        /\ result' = DiffResult(
                IF run_output(o).stdout = "" THEN run_output(o).stderr
                ELSE run_output(o).stdout,
                run_output(o).stdout # "",
                IF helmErr = "" THEN None ELSE helmErr)
    /\ pc' = "done"
    /\ UNCHANGED <<renderedExists, diskFiles, inv, commands_run, warnings, helmErr,
                   lastRemove>>

\* raw origin: kubectl diff -f <dir> --recursive
DiffRaw ==
    /\ pc = "diff_raw"
    /\ \E o \in Responses("kubectl", RawDiffArgs) :
        /\ Spawn("kubectl", RawDiffArgs, ".", o)
        /\ LET has_changes == run_output(o).stdout # ""
           IN  result' = DiffResult(run_output(o).stdout, has_changes,
                    IF ~has_changes /\ run_output(o).stderr # ""
                    THEN run_output(o).stderr ELSE None)
    /\ pc' = "done"
    /\ UNCHANGED <<renderedExists, diskFiles, inv, commands_run, warnings, helmErr,
                   lastRemove>>

-----------------------------------------------------------------------------
(* scan_yaml_files: the node list of scan_dir and the deduplication pass *)

MaxNodes == 3

ScanLabels == {"api"}

ScanNamespaces == {"ns", "prod"}

ScanDirs == {"a", "b"}

RawKinds == {"Deployment", "StatefulSet", "Pod"}

\* the node parse_yaml_doc builds for document idx of <dir>/<stem>.yaml
\* (names here hold no '/' and no '.', which the id would turn into '-')
RawNode(kind, name, ns, dir, stem, idx) ==
    [id |-> name \o "-" \o stem \o "-" \o ToString(idx),
     label |-> name, kind |-> kind, namespace |-> ns,
     file_path |-> Join(dir, stem \o ".yaml"), source |-> "raw"]

\* the node try_parse_helm_node builds for the component directory <dir>/<release>
HelmNode(release, ns, dir) ==
    [id |-> "helm-" \o release,
     label |-> release, kind |-> "HelmRelease", namespace |-> ns,
     file_path |-> Join(Join(Join(dir, release), "helm"), "Chart.yaml"),
     source |-> "helm"]

ScanNodes ==
    {RawNode(k, l, n, d, "app", 0) :
        k \in RawKinds, l \in ScanLabels, n \in ScanNamespaces, d \in ScanDirs}
      \cup {HelmNode(l, n, "infra") : l \in ScanLabels, n \in ScanNamespaces}

\* what scan_dir can leave in nodes: read_dir yields entries in any order
NodeLists == UNION {[1..n -> ScanNodes] : n \in 0..MaxNodes}

\* the priority closure
priority(kind, source) ==
    IF source = "helm" THEN 0
    ELSE CASE kind = "StatefulSet" -> 1
           [] kind = "Deployment" -> 2
           [] kind = "DaemonSet" -> 3
           [] kind = "ReplicaSet" -> 4
           [] kind = "Job" -> 5
           [] kind = "CronJob" -> 6
           [] kind = "Pod" -> 7
           [] OTHER -> 8

workload_kinds ==
    {"Deployment", "StatefulSet", "DaemonSet", "ReplicaSet", "Job", "CronJob", "Pod"}

\* the key a node is deduplicated under
DedupKey(node) ==
    IF node.kind \in workload_kinds
    THEN node.label \o "::" \o node.namespace
    ELSE node.kind \o "::" \o node.label \o "::" \o node.namespace

Outranks_OrTies(node, existing) ==
    priority(node.kind, node.source) <= priority(existing.kind, existing.source)

\* the test under which a later node takes the place of the kept one
Outranks(node, existing) ==
    priority(node.kind, node.source) < priority(existing.kind, existing.source)

RECURSIVE DedupLoop(_, _, _)
\* for node in nodes { .. }: seen maps a key to its index in deduped (1-based here)
DedupLoop(rest, seen, deduped) ==
    IF rest = <<>> THEN deduped
    ELSE LET node == Head(rest)
             key == DedupKey(node)
         IN  IF key \in DOMAIN seen
             THEN IF Outranks(node, deduped[seen[key]])
                  THEN DedupLoop(Tail(rest), seen,
                                 [deduped EXCEPT ![seen[key]] = node])
                  ELSE DedupLoop(Tail(rest), seen, deduped)
             ELSE DedupLoop(Tail(rest),
                            [k \in DOMAIN seen \cup {key} |->
                                IF k = key THEN Len(deduped) + 1 ELSE seen[k]],
                            Append(deduped, node))

RewriteId_Keep(id, i) == id

\* node.id = format!("{}-{}", node.id, i), i the 0-based index
RewriteId(id, i) == id \o "-" \o ToString(i)

EmptyMap == [k \in {} |-> 0]

\* the deduplication pass and the id rewrite of scan_yaml_files
Dedup(list) ==
    LET deduped == DedupLoop(list, EmptyMap, <<>>)
    IN  [i \in 1..Len(deduped) |->
            [deduped[i] EXCEPT !.id = RewriteId(deduped[i].id, i - 1)]]

\* one scan of a project folder
ScanYamlFiles ==
    /\ scanPc = "idle"
    /\ \E list \in NodeLists :
        /\ nodes' = list
        /\ scanResult' = Dedup(list)
    /\ scanPc' = "returned"
    /\ UNCHANGED outsideScan

\* the caller takes the ScanResult; the next scan starts afresh
ScanReturn ==
    /\ scanPc = "returned"
    /\ scanPc' = "idle"
    /\ nodes' = <<>>
    /\ scanResult' = <<>>
    /\ UNCHANGED outsideScan

-----------------------------------------------------------------------------
(* Text: a str is the sequence of its characters *)

Digits == <<"0", "1", "2", "3", "4", "5", "6", "7", "8", "9">>

Uppers == <<"A", "B", "C", "D", "E", "F", "G", "H", "I", "J", "K", "L", "M", "N", "O", "P", "Q", "R", "S", "T", "U", "V", "W", "X", "Y", "Z">>

Lowers == <<"a", "b", "c", "d", "e", "f", "g", "h", "i", "j", "k", "l", "m", "n", "o", "p", "q", "r", "s", "t", "u", "v", "w", "x", "y", "z">>

\* the characters of the texts below, in the order of their code points
Ascii ==
    <<"\t", "\n", "\r", " ", "\"", "#", "'", "+", "-", ".", "/">> \o Digits \o <<":">> \o Uppers
        \o <<"_">> \o Lowers \o <<"{", "}">>

Code(c) == CHOOSE i \in 1..Len(Ascii) : Ascii[i] = c

IndexIn(c, table) == CHOOSE i \in 1..Len(table) : table[i] = c

InTable(c, table) == \E i \in 1..Len(table) : table[i] = c

\* char::to_ascii lower and upper case of one character
LowerChar(c) == IF InTable(c, Uppers) THEN Lowers[IndexIn(c, Uppers)] ELSE c

UpperChar(c) == IF InTable(c, Lowers) THEN Uppers[IndexIn(c, Lowers)] ELSE c

to_lowercase(s) == [i \in 1..Len(s) |-> LowerChar(s[i])]

to_uppercase(s) == [i \in 1..Len(s) |-> UpperChar(s[i])]

\* char::is_whitespace
is_whitespace(c) == c \in {" ", "\t", "\n", "\r"}

RECURSIVE trim_start(_)
trim_start(s) ==
    IF s # <<>> /\ is_whitespace(Head(s)) THEN trim_start(Tail(s)) ELSE s

RECURSIVE trim_end(_)
trim_end(s) ==
    IF s # <<>> /\ is_whitespace(s[Len(s)])
    THEN trim_end(SubSeq(s, 1, Len(s) - 1))
    ELSE s

trim(s) == trim_end(trim_start(s))

starts_with(s, p) == Len(s) >= Len(p) /\ SubSeq(s, 1, Len(p)) = p

ends_with(s, p) == Len(s) >= Len(p) /\ SubSeq(s, Len(s) - Len(p) + 1, Len(s)) = p

\* what strip_prefix leaves when s starts with p
after_prefix(s, p) == SubSeq(s, Len(p) + 1, Len(s))

\* the start positions of p in s
Matches(s, p) == {i \in 1..(Len(s) - Len(p) + 1) : SubSeq(s, i, i + Len(p) - 1) = p}

contains(s, p) == Matches(s, p) # {}

RECURSIVE split(_, _)
\* str::split(p): the pieces between the matches of p, left to right.  The
\* patterns split on here cannot overlap themselves, so every match is
\* taken, and the text is cut first at the match nearest to its middle.
split(s, p) ==
    LET ms == Matches(s, p)
        off(x) == IF 2 * x < Len(s) THEN Len(s) - 2 * x ELSE 2 * x - Len(s)
    IN  IF ms = {} THEN <<s>>
        ELSE LET m == CHOOSE x \in ms : \A y \in ms : off(x) <= off(y)
             IN  split(SubSeq(s, 1, m - 1), p)
                    \o split(SubSeq(s, m + Len(p), Len(s)), p)

RECURSIVE join(_, _)
\* [String]::join(sep), put together by halves
join(parts, sep) ==
    IF parts = <<>> THEN <<>>
    ELSE IF Len(parts) = 1 THEN parts[1]
    ELSE LET h == Len(parts) \div 2
         IN  join(SubSeq(parts, 1, h), sep) \o sep
                \o join(SubSeq(parts, h + 1, Len(parts)), sep)

\* str::lines(): the text cut after every '\n'; no line for an empty rest
lines(s) ==
    LET pieces == split(s, <<"\n">>)
        kept == IF pieces[Len(pieces)] = <<>>
                THEN SubSeq(pieces, 1, Len(pieces) - 1)
                ELSE pieces
    IN  [i \in 1..Len(kept) |->
            IF i < Len(pieces) /\ ends_with(kept[i], <<"\r">>)
            THEN SubSeq(kept[i], 1, Len(kept[i]) - 1)
            ELSE kept[i]]

RECURSIVE trim_matches(_, _)
\* str::trim_matches(c)
trim_matches(s, c) ==
    IF s # <<>> /\ Head(s) = c THEN trim_matches(Tail(s), c)
    ELSE IF s # <<>> /\ s[Len(s)] = c THEN trim_matches(SubSeq(s, 1, Len(s) - 1), c)
    ELSE s

RECURSIVE LexLess(_, _)
\* the order of str: by code point, a proper prefix first
LexLess(a, b) ==
    IF b = <<>> THEN FALSE
    ELSE IF a = <<>> THEN TRUE
    ELSE IF Head(a) # Head(b) THEN Code(Head(a)) < Code(Head(b))
    ELSE LexLess(Tail(a), Tail(b))

RECURSIVE trim_zeros(_)
trim_zeros(d) == IF Len(d) > 1 /\ Head(d) = "0" THEN trim_zeros(Tail(d)) ELSE d

\* u32::MAX in decimal
U32MaxDigits == <<"4", "2", "9", "4", "9", "6", "7", "2", "9", "5">>

\* Option of a text: no element, or the one element
NoText == <<>>

Some(v) == <<v>>

\* str::parse::<u32>(): the value as its decimal digits, if any
parse_u32(s) ==
    LET d == IF s # <<>> /\ Head(s) = "+" THEN Tail(s) ELSE s
        v == trim_zeros(d)
    IN  IF d = <<>> \/ \E i \in 1..Len(d) : ~InTable(d[i], Digits) THEN NoText
        ELSE IF Len(v) > Len(U32MaxDigits) THEN NoText
        ELSE IF Len(v) = Len(U32MaxDigits) /\ LexLess(U32MaxDigits, v) THEN NoText
        ELSE Some(v)

RECURSIVE Chars(_)
\* u32::to_string as characters
Chars(n) ==
    IF n < 10 THEN <<Digits[n + 1]>>
    ELSE Chars(n \div 10) \o <<Digits[(n % 10) + 1]>>

RECURSIVE Str(_)
\* the characters written out as one string
Str(s) == IF s = <<>> THEN "" ELSE Head(s) \o Str(Tail(s))

-----------------------------------------------------------------------------
(* generate_field and generate_infra *)

MaxEnv == 2

project_path == "/p"

\* Path::new(project_path).file_name()
project_name == "p"

field_id == "api"

\* postgres:16, myorg/api:1.2, Bitnami/Redis, redis/exporter:1
Images ==
    {<<"p", "o", "s", "t", "g", "r", "e", "s", ":", "1", "6">>,
     <<"m", "y", "o", "r", "g", "/", "a", "p", "i", ":", "1", ".", "2">>,
     <<"B", "i", "t", "n", "a", "m", "i", "/", "R", "e", "d", "i", "s">>,
     <<"r", "e", "d", "i", "s", "/", "e", "x", "p", "o", "r", "t", "e", "r", ":", "1">>}

\* DB_PASSWORD, api_token, monkey, PORT
EnvKeys ==
    {<<"D", "B", "_", "P", "A", "S", "S", "W", "O", "R", "D">>,
     <<"a", "p", "i", "_", "t", "o", "k", "e", "n">>,
     <<"m", "o", "n", "k", "e", "y">>,
     <<"P", "O", "R", "T">>}

\* the value holds no '"', so the escaping of the secret's values changes nothing
EnvValues == {"s3cr3t"}

EnvVars == [key : EnvKeys, value : EnvValues]

EnvLists == UNION {[1..n -> EnvVars] : n \in 0..MaxEnv}

FieldNamespaces == {"", "prod"}

FieldConfigs ==
    [id : {field_id}, namespace : FieldNamespaces, image : Images,
     env : EnvLists, project_path : {project_path}]

\* the one file-system call of a run that fails, if any
FieldFailures ==
    {None, "dir", "namespace.yaml", "api-secret.yaml", "statefulset.yaml",
     "deployment.yaml", "service.yaml", "configmap.yaml"}

IoError == "os error"

\* PASSWORD, SECRET, KEY, TOKEN, PASS
secret_keys ==
    <<<<"P", "A", "S", "S", "W", "O", "R", "D">>,
     <<"S", "E", "C", "R", "E", "T">>,
     <<"K", "E", "Y">>,
     <<"T", "O", "K", "E", "N">>,
     <<"P", "A", "S", "S">>>>

\* secret_keys.iter().any(|k| e.key.to_uppercase().contains(k))
is_sensitive(e) ==
    \E i \in 1..Len(secret_keys) : contains(to_uppercase(e.key), secret_keys[i])

RECURSIVE collect(_)
\* .collect::<String>() of the formatted entries
collect(strs) == IF strs = <<>> THEN "" ELSE Head(strs) \o collect(Tail(strs))

\* format!("            - name: {}\n              value: \"{}\"\n", e.key, e.value)
LiteralEntry(e) ==
    "            - name: " \o Str(e.key) \o "\n              value: \""
        \o e.value \o "\"\n"

\* the entry that takes its value from the secret
SecretRefEntry(e, secret_name) ==
    "            - name: " \o Str(e.key)
        \o "\n              valueFrom:\n                secretKeyRef:\n"
        \o "                  name: " \o secret_name
        \o "\n                  key: " \o Str(e.key) \o "\n"

\* format!("          env:\n{}\n", vars)
EnvBlock(entries) ==
    IF entries = <<>> THEN "" ELSE "          env:\n" \o collect(entries) \o "\n"

\* a manifest is kept as its kind, metadata and the texts that vary
generate_deployment_yaml(cfg) ==
    [kind |-> "Deployment", name |-> cfg.id, namespace |-> cfg.namespace,
     env_block |-> EnvBlock([i \in 1..Len(cfg.env) |-> LiteralEntry(cfg.env[i])])]

generate_service_yaml(cfg) ==
    [kind |-> "Service", name |-> cfg.id, namespace |-> cfg.namespace]

generate_configmap_yaml(cfg) ==
    [kind |-> "ConfigMap", name |-> cfg.id \o "-config", namespace |-> cfg.namespace]

generate_namespace_yaml(ns) == [kind |-> "Namespace", name |-> ns]

\* the env entries generate_secret_yaml keeps
Sensitive(cfg) == SelectSeq(cfg.env, is_sensitive)

\* the Secret of generate_secret_yaml when it is Some
generate_secret_yaml(cfg) ==
    [kind |-> "Secret", name |-> cfg.id \o "-secret", namespace |-> cfg.namespace,
     data |-> collect([i \in 1..Len(Sensitive(cfg)) |->
                 "  " \o Str(Sensitive(cfg)[i].key) \o ": \""
                      \o Sensitive(cfg)[i].value \o "\"\n"])]

generate_statefulset_yaml(cfg) ==
    LET has_secret == \E i \in 1..Len(cfg.env) : is_sensitive(cfg.env[i])
        secret_name == cfg.id \o "-secret"
    IN  [kind |-> "StatefulSet", name |-> cfg.id, namespace |-> cfg.namespace,
         env_block |-> EnvBlock([i \in 1..Len(cfg.env) |->
             IF is_sensitive(cfg.env[i]) /\ has_secret
             THEN SecretRefEntry(cfg.env[i], secret_name)
             ELSE LiteralEntry(cfg.env[i])])]

\* postgres, mysql, mongo, mariadb, redis, kafka, redpanda, cassandra,
\* clickhouse, rabbitmq, nats, elasticsearch
stateful_keywords ==
    <<<<"p", "o", "s", "t", "g", "r", "e", "s">>,
     <<"m", "y", "s", "q", "l">>,
     <<"m", "o", "n", "g", "o">>,
     <<"m", "a", "r", "i", "a", "d", "b">>,
     <<"r", "e", "d", "i", "s">>,
     <<"k", "a", "f", "k", "a">>,
     <<"r", "e", "d", "p", "a", "n", "d", "a">>,
     <<"c", "a", "s", "s", "a", "n", "d", "r", "a">>,
     <<"c", "l", "i", "c", "k", "h", "o", "u", "s", "e">>,
     <<"r", "a", "b", "b", "i", "t", "m", "q">>,
     <<"n", "a", "t", "s">>,
     <<"e", "l", "a", "s", "t", "i", "c", "s", "e", "a", "r", "c", "h">>>>

is_stateful_image_AnySegment(image) ==
    \E i \in 1..Len(stateful_keywords) :
        contains(to_lowercase(image), stateful_keywords[i])

\* img.split(':').next() then .split('/').last(), searched for the keywords
is_stateful_image(image) ==
    LET img == to_lowercase(image)
        repo == split(img, <<":">>)[1]
        segs == split(repo, <<"/">>)
    IN  \E i \in 1..Len(stateful_keywords) :
            contains(segs[Len(segs)], stateful_keywords[i])

GenerateResult(files, created, ns, warns, error) ==
    [generated_files |-> files, namespace_created |-> created,
     namespace |-> ns, warnings |-> warns, error |-> error]

\* a file to write, and the warning pushed when the write fails
File(name, warning, content) ==
    [name |-> name, warning |-> warning, content |-> content]

\* the files generate_field goes on to write once namespace.yaml is written
FieldWrites(cfg) ==
    LET use_statefulset == is_stateful_image(cfg.image)
    IN  (IF Sensitive(cfg) # <<>>
         THEN <<File(cfg.id \o "-secret.yaml", "Cannot write secret.yaml",
                     generate_secret_yaml(cfg))>>
         ELSE <<>>)
        \o (IF use_statefulset
            THEN <<File("statefulset.yaml", "Cannot write statefulset.yaml",
                        generate_statefulset_yaml(cfg))>>
            ELSE <<File("deployment.yaml", "Cannot write deployment.yaml",
                        generate_deployment_yaml(cfg))>>)
        \o <<File("service.yaml", "Cannot write service.yaml",
                  generate_service_yaml(cfg))>>
        \o (IF ~use_statefulset
            THEN <<File("configmap.yaml", "Cannot write configmap.yaml",
                        generate_configmap_yaml(cfg))>>
            ELSE <<>>)

\* the files left in dir and the GenerateResult, given the writes to make
\* after namespace.yaml and the call that fails
Written(dir, ns, writes, failing) ==
    LET ns_file == File("namespace.yaml", "", generate_namespace_yaml(ns))
        ok == SelectSeq(writes, LAMBDA w : w.name # failing)
        bad == SelectSeq(writes, LAMBDA w : w.name = failing)
        all == <<ns_file>> \o ok
    IN  IF failing = "dir"
        THEN [files |-> {},
              result |-> GenerateResult(<<>>, FALSE, ns, <<>>,
                  "Cannot create directory " \o dir \o ": " \o IoError)]
        ELSE IF failing = "namespace.yaml"
        THEN [files |-> {},
              result |-> GenerateResult(<<>>, FALSE, ns, <<>>,
                  "Cannot write namespace.yaml: " \o IoError)]
        ELSE [files |-> {[name |-> all[i].name, content |-> all[i].content] :
                            i \in 1..Len(all)},
              result |-> GenerateResult(
                  [i \in 1..Len(all) |-> Join(dir, all[i].name)], TRUE, ns,
                  [i \in 1..Len(bad) |->
                      bad[i].warning \o ": " \o IoError],
                  None)]

\* generate_field(config), one run from the call to the returned value
GenerateField ==
    /\ genPc = "idle"
    /\ \E config \in FieldConfigs, failing \in FieldFailures :
        LET cfg == IF config.namespace = ""
                   THEN [config EXCEPT !.namespace = project_name \o "-" \o config.id]
                   ELSE config
            field_dir == Join(Join(cfg.project_path, "apps"), cfg.id)
        IN  \E out \in {Written(field_dir, cfg.namespace, FieldWrites(cfg), failing)} :
            /\ genInput' = [op |-> "field", config |-> config, failing |-> failing]
            /\ unitDir' = out.files
            /\ genResult' = out.result
    /\ genPc' = "returned"
    /\ UNCHANGED outsideGen

infra_id == "redis"

OptNamespace == {None, "prod"}

\* Option<HelmInfraConfig> as a sequence of at most one config
OptHelm ==
    {<<>>} \cup {<<[chart_name |-> "redis", values_path |-> v]>> :
                    v \in {None, "values/redis.yaml"}}

OptRawPath == {None, "redis.yaml"}

InfraConfigs ==
    [id : {infra_id}, source : Sources, namespace : OptNamespace, helm : OptHelm,
     raw_yaml_path : OptRawPath, project_path : {project_path}]

InfraFailures ==
    {None, "dir", "namespace.yaml", "helm", "helm/Chart.yaml", "helm/values.yaml",
     "rendered"}

\* the files of the chart scaffold, written after helm/ is created
HelmWrites(helm) ==
    <<File("helm/Chart.yaml", "Cannot write Chart.yaml",
           [kind |-> "Chart", name |-> helm.chart_name])>>
      \o (IF helm.values_path = None
          THEN <<File("helm/values.yaml", "Cannot write values.yaml",
                      [kind |-> "Values", name |-> helm.chart_name])>>
          ELSE <<>>)
      \o <<File("rendered", "Cannot create rendered/", [kind |-> "Directory"])>>

\* generate_infra(config): the files left on disk and the GenerateResult;
\* raw_exists tells whether <project_path>/<raw_yaml_path> exists
generate_infra(config, failing, raw_exists) ==
    LET ns == IF config.namespace = None
                     THEN "infra-" \o config.id
                     ELSE config.namespace
        infra_dir == Join(Join(config.project_path, "infra"), config.id)
        first == Written(infra_dir, ns, <<>>, failing)
        stopped(error) ==
            [first EXCEPT !.result.namespace_created = FALSE,
                          !.result.error = error]
    IN  IF first.result.error # None THEN first
        ELSE IF config.source = "helm"
        THEN IF config.helm = <<>>
             THEN stopped("source=helm but helm config is missing")
             ELSE IF failing = "helm"
             THEN stopped("Cannot create helm/: " \o IoError)
             ELSE LET out == Written(infra_dir, ns,
                                     HelmWrites(config.helm[1]), failing)
                  IN  IF failing = "rendered" THEN out
                      ELSE [out EXCEPT !.files = @ \cup
                              {[name |-> "rendered/.gitkeep",
                                content |-> [kind |-> "Empty"]]}]
        ELSE [first EXCEPT !.result.warnings =
                IF config.raw_yaml_path = None
                THEN <<"source=raw but raw_yaml_path is not provided">>
                ELSE IF ~raw_exists
                THEN <<"Raw YAML path does not exist: "
                          \o Join(config.project_path, config.raw_yaml_path)>>
                ELSE <<>>]

\* generate_infra(config), one run from the call to the returned value
GenerateInfra ==
    /\ genPc = "idle"
    /\ \E config \in InfraConfigs, failing \in InfraFailures, raw_exists \in BOOLEAN :
        \E out \in {generate_infra(config, failing, raw_exists)} :
            /\ genInput' = [op |-> "infra", config |-> config, failing |-> failing,
                            raw_exists |-> raw_exists]
            /\ unitDir' = out.files
            /\ genResult' = out.result
    /\ genPc' = "returned"
    /\ UNCHANGED outsideGen

NoInput == [op |-> "none"]

\* the caller takes the GenerateResult; the next run generates a new unit
GenReturn ==
    /\ genPc = "returned"
    /\ genPc' = "idle"
    /\ genInput' = NoInput
    /\ unitDir' = {}
    /\ genResult' = NoResult
    /\ UNCHANGED outsideGen

-----------------------------------------------------------------------------
(* apply_replicas and patch_replicas_in_file *)

str_metadata == <<"m", "e", "t", "a", "d", "a", "t", "a", ":">>

str_replicas == <<"r", "e", "p", "l", "i", "c", "a", "s", ":">>

str_separator == <<"\n", "-", "-", "-">>

\* the value of "<key>: <value>" in a trimmed line, unquoted, if not empty
FieldValue(trimmed, key) ==
    IF ~starts_with(trimmed, key) THEN NoText
    ELSE LET rest == trim(after_prefix(trimmed, key))
         IN  IF ~starts_with(rest, <<":">>) THEN NoText
             ELSE LET value == trim_matches(trim_matches(
                                   trim(after_prefix(rest, <<":">>)), "\""), "'")
                  IN  IF value = <<>> THEN NoText ELSE Some(value)

RECURSIVE MetadataScan(_, _, _)
\* the loop of extract_metadata_field over the lines left
MetadataScan(ls, in_metadata, key) ==
    IF ls = <<>> THEN NoText
    ELSE LET line == Head(ls)
         IN  IF ~starts_with(line, <<" ">>) /\ trim(line) = str_metadata
             THEN MetadataScan(Tail(ls), TRUE, key)
             ELSE IF ~in_metadata THEN MetadataScan(Tail(ls), FALSE, key)
             ELSE IF line # <<>> /\ ~starts_with(line, <<" ">>)
                       /\ ~starts_with(line, <<"\t">>)
             THEN NoText
             ELSE IF starts_with(line, <<" ", " ">>)
                       /\ ~starts_with(line, <<" ", " ", " ">>)
                       /\ FieldValue(trim(line), key) # NoText
             THEN FieldValue(trim(line), key)
             ELSE MetadataScan(Tail(ls), TRUE, key)

extract_metadata_field(content, key) == MetadataScan(lines(content), FALSE, key)

\* what one line gives to the find_map of extract_replicas
ReplicasOf(line) ==
    IF starts_with(trim(line), str_replicas)
    THEN parse_u32(trim(after_prefix(trim(line), str_replicas)))
    ELSE NoText

extract_replicas(content) ==
    LET ls == lines(content)
        hits == {i \in 1..Len(ls) : ReplicasOf(ls[i]) # NoText}
    IN  IF hits = {} THEN NoText
        ELSE ReplicasOf(ls[CHOOSE i \in hits : \A j \in hits : i <= j])

RECURSIVE take_whitespace(_)
\* line.chars().take_while(|c| c.is_whitespace())
take_whitespace(line) ==
    IF line # <<>> /\ is_whitespace(Head(line))
    THEN <<Head(line)>> \o take_whitespace(Tail(line))
    ELSE <<>>

\* the closure mapped over the lines of a matching document
PatchLine(line, new_replicas) ==
    IF starts_with(trim(line), str_replicas)
    THEN take_whitespace(line) \o str_replicas \o <<" ">> \o Chars(new_replicas)
    ELSE line

\* the test that selects the documents to patch
DocMatches(doc, node_label) ==
    LET name == extract_metadata_field(doc, <<"n", "a", "m", "e">>)
    IN  /\ (IF name = NoText THEN <<>> ELSE name[1]) = node_label
        /\ extract_replicas(doc) # NoText

NotFound_Never(found) == FALSE

\* if !found { return Err(..) }
NotFound(found) == ~found

\* patch_replicas_in_file on the content read: found, and the text to write
PatchContent(content, node_label, new_replicas) ==
    LET docs == split(content, str_separator)
        hit == [i \in 1..Len(docs) |-> DocMatches(docs[i], node_label)]
        patched == [i \in 1..Len(docs) |->
            IF hit[i]
            THEN LET ls == lines(docs[i])
                 IN  join([k \in 1..Len(ls) |-> PatchLine(ls[k], new_replicas)],
                          <<"\n">>)
            ELSE docs[i]]
    IN  [found |-> \E i \in 1..Len(docs) : hit[i],
         text |-> join(patched, str_separator)]

MaxDocs == 2

file_path == "/p/apps/api/deployment.yaml"

\* a workload named a with one replica
DocA ==
    <<"m", "e", "t", "a", "d", "a", "t", "a", ":", "\n", " ", " ", "n", "a", "m", "e", ":", " ", "a", "\n", "s", "p", "e", "c", ":", "\n", " ", " ", "r", "e", "p", "l", "i", "c", "a", "s", ":", " ", "1">>

\* a workload named b with two replicas
DocB ==
    <<"m", "e", "t", "a", "d", "a", "t", "a", ":", "\n", " ", " ", "n", "a", "m", "e", ":", " ", "b", "\n", "s", "p", "e", "c", ":", "\n", " ", " ", "r", "e", "p", "l", "i", "c", "a", "s", ":", " ", "2">>

\* a Service named a: no replicas line
DocService ==
    <<"k", "i", "n", "d", ":", " ", "S", "e", "r", "v", "i", "c", "e", "\n", "m", "e", "t", "a", "d", "a", "t", "a", ":", "\n", " ", " ", "n", "a", "m", "e", ":", " ", "a">>

\* a workload named a whose replicas line holds no number
DocTemplated ==
    <<"m", "e", "t", "a", "d", "a", "t", "a", ":", "\n", " ", " ", "n", "a", "m", "e", ":", " ", "a", "\n", "s", "p", "e", "c", ":", "\n", " ", " ", "r", "e", "p", "l", "i", "c", "a", "s", ":", " ", "x">>

DocPalette == {DocA, DocB, DocService, DocTemplated}

\* how a file ends after its last document
Endings == {<<>>, <<"\n">>, <<"\n", "\n">>}

\* the manifest files: documents separated by a "---" line
ManifestFiles ==
    {join(docs, <<"\n", "-", "-", "-", "\n">>) \o e :
        docs \in UNION {[1..n -> DocPalette] : n \in 1..MaxDocs}, e \in Endings}

PatchLabels == {<<"a">>, <<"b">>}

PatchValues == {3, 10}

PatchFailures == {None, "read", "write"}

KubectlAnswers == {Ran("out", "", TRUE), Ran("", "err", FALSE), SpawnFailure("kubectl")}

NoCall == [label |-> <<>>, ok |-> FALSE]

ApplyEntry == <<"kubectl", "apply", "-f", file_path>>

\* the variant that answers Ok(()) for a document found and leaves the file
\* as it was
patch_replicas_in_file_Unwritten(content, node_label, r, failing) ==
    [ok |-> failing = None /\ r.found, val |-> "", file |-> content]

\* patch_replicas_in_file: Ok(()) or Err(message), and the file afterwards;
\* r is what PatchContent gives for the content read
patch_replicas_in_file(content, node_label, r, failing) ==
    IF failing = "read"
    THEN [ok |-> FALSE, val |-> "Cannot read " \o file_path \o ": " \o IoError,
          file |-> content]
    ELSE IF NotFound(r.found)
    THEN [ok |-> FALSE,
          val |-> "'" \o Str(node_label) \o "' with replicas not found in "
                      \o file_path,
          file |-> content]
    ELSE IF failing = "write"
    THEN [ok |-> FALSE, val |-> "Cannot write " \o file_path \o ": " \o IoError,
          file |-> content]
    ELSE [ok |-> TRUE, val |-> "", file |-> r.text]

\* apply_replicas(file_path, node_label, replicas), from the call to the
\* returned value; the stdout of kubectl holds no surrounding whitespace,
\* and the check mark of the Ok text is written v
ApplyReplicas ==
    /\ patchPc = "idle"
    /\ \E node_label \in PatchLabels, replicas \in PatchValues :
        \E r \in {PatchContent(patchFile, node_label, replicas)} :
        \E failing \in PatchFailures, o \in KubectlAnswers :
        \E patch \in {patch_replicas_in_file(patchFile, node_label, r, failing)} :
            /\ patchFile' = patch.file
            /\ patchCall' =
                  [label |-> node_label, replicas |-> replicas, failing |-> failing,
                   before |-> patchFile, ok |-> patch.ok,
                   issued |-> IF patch.ok THEN <<ApplyEntry>> ELSE <<>>,
                   result |-> IF ~patch.ok THEN [ok |-> FALSE, val |-> patch.val]
                              ELSE IF run_result(o).ok
                              THEN [ok |-> TRUE, val |-> "v " \o run_result(o).val]
                              ELSE run_result(o)]
    /\ patchPc' = "returned"
    /\ UNCHANGED patchPrev
    /\ UNCHANGED outsidePatch

\* the caller takes the result; the file stays as the call left it
PatchReturn ==
    /\ patchPc = "returned"
    /\ patchPc' = "idle"
    /\ patchPrev' = [label |-> patchCall.label, replicas |-> patchCall.replicas,
                     ok |-> patchCall.ok]
    /\ patchCall' = NoCall
    /\ UNCHANGED patchFile
    /\ UNCHANGED outsidePatch

-----------------------------------------------------------------------------
(* split_rendered_manifests *)

MaxRendered == 3

\* the kind_order closure, on the characters of the kind
kind_order(kind) ==
    CASE kind = <<"N", "a", "m", "e", "s", "p", "a", "c", "e">> -> 0
      [] kind = <<"S", "e", "r", "v", "i", "c", "e", "A", "c", "c", "o", "u", "n", "t">> -> 1
      [] kind = <<"C", "l", "u", "s", "t", "e", "r", "R", "o", "l", "e">> -> 2
      [] kind = <<"C", "l", "u", "s", "t", "e", "r", "R", "o", "l", "e", "B", "i", "n", "d", "i", "n", "g">> -> 3
      [] kind = <<"R", "o", "l", "e">> -> 4
      [] kind = <<"R", "o", "l", "e", "B", "i", "n", "d", "i", "n", "g">> -> 5
      [] kind = <<"C", "o", "n", "f", "i", "g", "M", "a", "p">> -> 6
      [] kind = <<"S", "e", "c", "r", "e", "t">> -> 7
      [] kind = <<"P", "e", "r", "s", "i", "s", "t", "e", "n", "t", "V", "o", "l", "u", "m", "e", "C", "l", "a", "i", "m">> -> 8
      [] kind = <<"S", "e", "r", "v", "i", "c", "e">> -> 9
      [] kind = <<"D", "e", "p", "l", "o", "y", "m", "e", "n", "t">> -> 10
      [] kind = <<"S", "t", "a", "t", "e", "f", "u", "l", "S", "e", "t">> -> 11
      [] kind = <<"D", "a", "e", "m", "o", "n", "S", "e", "t">> -> 12
      [] kind = <<"J", "o", "b">> -> 13
      [] kind = <<"C", "r", "o", "n", "J", "o", "b">> -> 14
      [] kind = <<"I", "n", "g", "r", "e", "s", "s">> -> 15
      [] kind = <<"I", "n", "g", "r", "e", "s", "s", "C", "l", "a", "s", "s">> -> 16
      [] kind = <<"C", "u", "s", "t", "o", "m", "R", "e", "s", "o", "u", "r", "c", "e", "D", "e", "f", "i", "n", "i", "t", "i", "o", "n">> -> 17
      [] OTHER -> 50

str_kind == <<"k", "i", "n", "d", ":">>

str_name == <<"n", "a", "m", "e", ":">>

\* the first line that is not indented by a space and holds "kind:" after
\* its leading whitespace; of it, the text between the first and second ':'
SplitKind(doc) ==
    LET ls == lines(doc)
        hits == {i \in 1..Len(ls) :
                    /\ starts_with(trim_start(ls[i]), str_kind)
                    /\ ~starts_with(ls[i], <<" ">>)}
    IN  IF hits = {} THEN <<"U", "n", "k", "n", "o", "w", "n">>
        ELSE trim(split(ls[CHOOSE i \in hits : \A j \in hits : i <= j], <<":">>)[2])

RECURSIVE SplitNameScan(_, _)
\* the loop that looks for the two-space-indented name: line under metadata:
SplitNameScan(ls, in_meta) ==
    IF ls = <<>> THEN <<"r", "e", "s", "o", "u", "r", "c", "e">>
    ELSE LET line == Head(ls)
         IN  IF trim(line) = str_metadata /\ ~starts_with(line, <<" ">>)
             THEN SplitNameScan(Tail(ls), TRUE)
             ELSE IF ~in_meta THEN SplitNameScan(Tail(ls), FALSE)
             ELSE IF line # <<>> /\ ~starts_with(line, <<" ">>)
                       /\ ~starts_with(line, <<"\t">>)
             THEN <<"r", "e", "s", "o", "u", "r", "c", "e">>
             ELSE IF starts_with(line, <<" ", " ">>)
                       /\ ~starts_with(line, <<" ", " ", " ">>)
                       /\ starts_with(trim(line), str_name)
             THEN trim_matches(trim_matches(
                      trim(after_prefix(trim(line), str_name)), "\""), "'")
             ELSE SplitNameScan(Tail(ls), TRUE)

\* name.replace('/', "-").replace('.', "-")
safe_name(name) ==
    [i \in 1..Len(name) |-> IF name[i] \in {"/", "."} THEN "-" ELSE name[i]]

\* the filter_map closure: nothing for a dropped document, else the triple
SplitDoc(piece) ==
    LET doc == trim(piece)
        ls == lines(doc)
    IN  IF doc = <<>> THEN <<>>
        ELSE IF \A i \in 1..Len(ls) :
                    trim(ls[i]) = <<>> \/ starts_with(trim(ls[i]), <<"#">>)
        THEN <<>>
        ELSE LET kind == SplitKind(doc)
             IN  <<[order |-> kind_order(kind),
                    name |-> to_lowercase(kind) \o <<"-">>
                               \o safe_name(SplitNameScan(ls, FALSE))
                               \o <<".", "y", "a", "m", "l">>,
                    content |-> doc \o <<"\n">>]>>

RECURSIVE flatten(_)
\* the kept triples in the order of their documents, put together by halves
flatten(lists) ==
    IF lists = <<>> THEN <<>>
    ELSE IF Len(lists) = 1 THEN lists[1]
    ELSE LET h == Len(lists) \div 2
         IN  flatten(SubSeq(lists, 1, h)) \o flatten(SubSeq(lists, h + 1, Len(lists)))

\* the order of the sort keys (order, name)
KeyLess(a, b) ==
    a.order < b.order \/ (a.order = b.order /\ LexLess(a.name, b.name))

\* Vec::sort_by_key, a stable sort: an entry goes after the entries of
\* smaller key and after the earlier entries of equal key
sort_by_key(docs) ==
    LET n == Len(docs)
        place == <<>> \o [i \in 1..n |->
            1 + Cardinality({j \in 1..n :
                    \/ KeyLess(docs[j], docs[i])
                    \/ j < i /\ ~KeyLess(docs[i], docs[j])})]
    IN  [k \in 1..n |-> docs[CHOOSE i \in 1..n : place[i] = k]]

\* format!("{:02}", i)
Pad2(i) == IF i < 10 THEN <<"0">> \o Chars(i) ELSE Chars(i)

split_rendered_manifests(text) ==
    LET pieces == split(text, str_separator)
        docs == sort_by_key(flatten([i \in 1..Len(pieces) |-> SplitDoc(pieces[i])]))
    IN  [i \in 1..Len(docs) |->
            [filename |-> Pad2(i - 1) \o <<"-">> \o docs[i].name,
             content |-> docs[i].content]]

RenderedNamespace ==
    <<"k", "i", "n", "d", ":", " ", "N", "a", "m", "e", "s", "p", "a", "c", "e", "\n", "m", "e", "t", "a", "d", "a", "t", "a", ":", "\n", " ", " ", "n", "a", "m", "e", ":", " ", "p", "r", "o", "d">>

RenderedServiceWeb ==
    <<"#", " ", "S", "o", "u", "r", "c", "e", ":", " ", "s", "v", "c", ".", "y", "a", "m", "l", "\n", "k", "i", "n", "d", ":", " ", "S", "e", "r", "v", "i", "c", "e", "\n", "m", "e", "t", "a", "d", "a", "t", "a", ":", "\n", " ", " ", "n", "a", "m", "e", ":", " ", "w", "e", "b">>

RenderedServiceApi ==
    <<"k", "i", "n", "d", ":", " ", "S", "e", "r", "v", "i", "c", "e", "\n", "m", "e", "t", "a", "d", "a", "t", "a", ":", "\n", " ", " ", "n", "a", "m", "e", ":", " ", "\"", "a", "p", "i", "\"">>

RenderedDeployment ==
    <<"k", "i", "n", "d", ":", " ", "D", "e", "p", "l", "o", "y", "m", "e", "n", "t", "\n", "m", "e", "t", "a", "d", "a", "t", "a", ":", "\n", " ", " ", "l", "a", "b", "e", "l", "s", ":", "\n", " ", " ", " ", " ", "n", "a", "m", "e", ":", " ", "x", "\n", " ", " ", "n", "a", "m", "e", ":", " ", "a", "p", "i", ".", "v", "1">>

\* a kind outside the table, and no metadata
RenderedWidget ==
    <<"k", "i", "n", "d", ":", " ", "W", "i", "d", "g", "e", "t", "\n", "s", "p", "e", "c", ":", "\n", " ", " ", "n", "a", "m", "e", ":", " ", "w">>

\* a document of comments only
RenderedComment ==
    <<"#", " ", "S", "o", "u", "r", "c", "e", ":", " ", "e", "m", "p", "t", "y", ".", "y", "a", "m", "l", "\n">>

RenderedDocs ==
    {RenderedNamespace, RenderedServiceWeb, RenderedServiceApi, RenderedDeployment,
     RenderedWidget, RenderedComment}

\* what helm template prints: the documents, each after a "---" line
RenderedTexts ==
    {join(docs, <<"\n", "-", "-", "-", "\n">>) \o <<"\n">> :
        docs \in UNION {[1..n -> RenderedDocs] : n \in 0..MaxRendered}}

ManyRendered == 101

\* the output of a large chart: ManyRendered documents, a Service first and
\* the Namespace last
LargeChart ==
    join([i \in 1..ManyRendered |->
             IF i = 1 THEN RenderedServiceWeb
             ELSE IF i = ManyRendered THEN RenderedNamespace
             ELSE RenderedWidget], <<"\n", "-", "-", "-", "\n">>) \o <<"\n">>

\* one run of split_rendered_manifests
SplitRenderedManifests ==
    /\ splitPc = "idle"
    /\ \E text \in RenderedTexts \cup {LargeChart} :
        /\ raw' = text
        /\ manifests' = split_rendered_manifests(text)
    /\ splitPc' = "returned"
    /\ UNCHANGED outsideSplit

SplitReturn ==
    /\ splitPc = "returned"
    /\ splitPc' = "idle"
    /\ raw' = <<>>
    /\ manifests' = <<>>
    /\ UNCHANGED outsideSplit


-----------------------------------------------------------------------------
(* Rendering a unit: helm_template, helm_template_async and the render step  *)
(* of deploy_resource. Each runs on a thread of its own and works on         *)
(* <component_dir>/rendered through separate file-system calls, so every     *)
(* call is a step and the steps of two operations may alternate.             *)

\* the render operations that may be in flight at once
Renders == {"first", "second"}

RenderCommands == {"helm_template", "helm_template_async", "deploy_resource"}

str_gitkeep == <<".", "g", "i", "t", "k", "e", "e", "p">>

rendered_path == <<"/", "p", "/", "i", "n", "f", "r", "a", "/", "r", "e", "d", "i", "s", "/", "r", "e", "n", "d", "e", "r", "e", "d", "/">>

\* stderr of a helm call that fails
HelmStderr == "Error: chart failed"

\* what helm template may print for the unit: two versions of the chart
ChartOutputs ==
    {join(<<RenderedNamespace, RenderedServiceWeb, RenderedDeployment>>,
          <<"\n", "-", "-", "-", "\n">>) \o <<"\n">>,
     join(<<RenderedServiceApi, RenderedNamespace>>,
          <<"\n", "-", "-", "-", "\n">>) \o <<"\n">>}

\* let manifests = split_rendered_manifests(&raw): it reads nothing but the
\* text, and is worked out here as soon as helm template has printed it
Manifests(r) == renderCall[r].manifests

Gitkeep == [filename |-> str_gitkeep, content |-> <<>>]

NoDir == [exists |-> FALSE, files |-> {}]

\* the ways rendered/ is found before the first render
RenderedDirs == {NoDir, [exists |-> TRUE, files |-> {}], [exists |-> TRUE, files |-> {Gitkeep}]}

FileNamesIn(d) == {f.filename : f \in d.files}

NoRender == [command |-> "", raw |-> <<>>, manifests |-> <<>>]

\* rendered_files, warnings and error are HelmRenderResult; the other two
\* commands return none of it, and the fields then record what the thread did.
\* rendered: the loop over the manifests has run to its end
NoRenderResult == [rendered_files |-> <<>>, warnings |-> <<>>, error |-> NoText, rendered |-> FALSE]

\* how a call on rendered/ may end: TRUE, it succeeds
Outcomes == IF diskFails THEN BOOLEAN ELSE {TRUE}

\* where an operation goes once the manifests left to write are rest
AfterWrite(r, rest) ==
    IF rest # <<>> THEN "write"
    ELSE IF renderCall[r].command = "deploy_resource" THEN "install"
    ELSE "returned"

\* the command is invoked; deploy_resource is taken up at its second helm step
Invoke(r) ==
    /\ renderPc[r] = "idle"
    /\ \E c \in RenderCommands :
        /\ renderCall' = [renderCall EXCEPT ![r] = [command |-> c, raw |-> <<>>, manifests |-> <<>>]]
        /\ renderPc' = [renderPc EXCEPT
                           ![r] = IF c = "deploy_resource" THEN "dependency" ELSE "version"]
    /\ sentinelBefore' = [sentinelBefore EXCEPT ![r] = Gitkeep \in renderedDir.files]
    /\ renderResult' = [renderResult EXCEPT ![r] = NoRenderResult]
    /\ UNCHANGED <<renderedDir, listing, pending, diskFails>>
    /\ UNCHANGED outsideRender

\* the same, by a caller that keeps one render in flight
InvokeAlone(r) ==
    /\ \A q \in Renders : renderPc[q] = "idle"
    /\ Invoke(r)

\* one run_helm call: helm version, helm dependency update, helm template,
\* helm upgrade --install (the message of the first is written with a dash
\* where the source has a long dash)
RunHelm(r) ==
    /\ renderPc[r] \in {"version", "dependency", "template", "install"}
    /\ \E ok \in BOOLEAN, out \in ChartOutputs :
        LET step == renderPc[r]
            deploy == renderCall[r].command = "deploy_resource"
            message == CASE step = "version" ->
                                "helm CLI not found - install helm 3 to render templates"
                         [] step = "dependency" ->
                                "helm dependency update failed: " \o HelmStderr
                         [] step = "template" -> "helm template failed: " \o HelmStderr
                         [] OTHER -> HelmStderr
        IN  /\ renderPc' = [renderPc EXCEPT ![r] =
                   CASE step = "install" -> "returned"
                     [] step = "template" /\ ~ok /\ deploy -> "install"
                     [] ~ok -> "returned"
                     [] step = "version" -> "dependency"
                     [] step = "dependency" -> "template"
                     [] OTHER -> "dir"]
            /\ renderResult' = [renderResult EXCEPT ![r].error =
                   IF ok \/ (step = "template" /\ deploy) THEN @ ELSE Some(message)]
            /\ renderCall' = [renderCall EXCEPT
                   ![r].raw = IF ok /\ step = "template" THEN out ELSE @,
                   ![r].manifests = IF ok /\ step = "template"
                                    THEN split_rendered_manifests(out) ELSE @]
    /\ UNCHANGED <<renderedDir, listing, pending, sentinelBefore, diskFails>>
    /\ UNCHANGED outsideRender

\* rendered/ is made if it is missing, or else listed for the clearing.
\* helm_template lists only a directory it found; deploy_resource calls
\* create_dir_all and read_dir one after the other and passes over both errors
OpenDir(r) ==
    /\ renderPc[r] = "dir"
    /\ \E made \in Outcomes, listed \in Outcomes :
        LET deploy == renderCall[r].command = "deploy_resource"
            found == renderedDir.exists
            exists == found \/ made
            names == IF exists /\ listed /\ (found \/ deploy)
                     THEN FileNamesIn(renderedDir) ELSE {}
            stop == ~found /\ ~made /\ ~deploy
        IN  /\ found => made
            /\ (~exists \/ (~found /\ ~deploy)) => listed
            /\ renderedDir' = [renderedDir EXCEPT !.exists = exists]
            /\ listing' = [listing EXCEPT ![r] = names]
            /\ IF stop
               THEN /\ renderPc' = [renderPc EXCEPT ![r] = "returned"]
                    /\ renderResult' = [renderResult EXCEPT ![r].error =
                           Some("Cannot create rendered/: " \o IoError)]
                    /\ UNCHANGED pending
               ELSE IF names # {}
               THEN /\ renderPc' = [renderPc EXCEPT ![r] = "clear"]
                    /\ UNCHANGED <<pending, renderResult>>
               ELSE /\ renderPc' = [renderPc EXCEPT ![r] = AfterWrite(r, Manifests(r))]
                    /\ pending' = [pending EXCEPT ![r] = Manifests(r)]
                    /\ renderResult' = [renderResult EXCEPT ![r].rendered = Manifests(r) = <<>>]
    /\ UNCHANGED <<renderCall, sentinelBefore, diskFails>>
    /\ UNCHANGED outsideRender

\* the next listed entry: remove_file unless it is .gitkeep, its error passed
\* over; after the last entry the text is split
RemoveFile(r) ==
    /\ renderPc[r] = "clear"
    /\ \E name \in listing[r], ok \in Outcomes :
        LET there == name \in FileNamesIn(renderedDir)
            rest == listing[r] \ {name}
        IN  /\ (name = str_gitkeep \/ ~there) => ok
            /\ renderedDir' = [renderedDir EXCEPT !.files =
                   IF ok /\ name # str_gitkeep
                   THEN {f \in @ : f.filename # name} ELSE @]
            /\ listing' = [listing EXCEPT ![r] = rest]
            /\ IF rest # {}
               THEN UNCHANGED <<renderPc, pending, renderResult>>
               ELSE /\ renderPc' = [renderPc EXCEPT ![r] = AfterWrite(r, Manifests(r))]
                    /\ pending' = [pending EXCEPT ![r] = Manifests(r)]
                    /\ renderResult' = [renderResult EXCEPT ![r].rendered = Manifests(r) = <<>>]
    /\ UNCHANGED <<renderCall, sentinelBefore, diskFails>>
    /\ UNCHANGED outsideRender

\* fs::write of the next manifest
WriteFile(r) ==
    /\ renderPc[r] = "write"
    /\ \E ok \in (IF renderedDir.exists THEN Outcomes ELSE {FALSE}) :
        LET m == Head(pending[r])
            rest == Tail(pending[r])
        IN  /\ renderedDir' = [renderedDir EXCEPT !.files =
                   IF ok THEN {f \in @ : f.filename # m.filename} \cup {m} ELSE @]
            /\ renderResult' = [renderResult EXCEPT
                   ![r].rendered_files =
                       IF ok THEN Append(@, rendered_path \o m.filename) ELSE @,
                   ![r].warnings =
                       IF ok THEN @
                       ELSE Append(@, "Failed to write " \o Str(m.filename) \o ": " \o IoError),
                   ![r].rendered = rest = <<>>]
            /\ pending' = [pending EXCEPT ![r] = rest]
            /\ renderPc' = [renderPc EXCEPT ![r] = AfterWrite(r, rest)]
    /\ UNCHANGED <<renderCall, listing, sentinelBefore, diskFails>>
    /\ UNCHANGED outsideRender

\* the operation has ended; the caller may invoke the next
RenderReturn(r) ==
    /\ renderPc[r] = "returned"
    /\ renderPc' = [renderPc EXCEPT ![r] = "idle"]
    /\ renderCall' = [renderCall EXCEPT ![r] = NoRender]
    /\ renderResult' = [renderResult EXCEPT ![r] = NoRenderResult]
    /\ sentinelBefore' = [sentinelBefore EXCEPT ![r] = FALSE]
    /\ UNCHANGED <<renderedDir, listing, pending, diskFails>>
    /\ UNCHANGED outsideRender


-----------------------------------------------------------------------------
(* The file watcher: watch_project, unwatch_project and the callback that    *)
(* notify runs, on the watcher's own thread, for every event.                *)

MaxWatchers == 2

MaxEvents == 3

MaxClock == 900

\* Duration::from_millis(300)
DebounceMillis == 300

\* the time between an event and the one before it
Delays == {299, 300}

PathA == <<"/", "p", "/", "a", "p", "p", "s", "/", "a", ".", "y", "a", "m", "l">>

PathB == <<"/", "p", "/", "a", "p", "p", "s", "/", "b", ".", "y", "m", "l">>

PathRendered == <<"/", "p", "/", "i", "n", "f", "r", "a", "/", "r", "e", "d", "i", "s", "/", "r", "e", "n", "d", "e", "r", "e", "d", "/", "a", ".", "y", "a", "m", "l">>

PathGit == <<"/", "p", "/", ".", "g", "i", "t", "/", "b", ".", "y", "m", "l">>

PathNotes == <<"/", "p", "/", "n", "o", "t", "e", "s", ".", "t", "x", "t">>

\* what notify hands to the callback: Ok(Event) with its kind and paths, or Err
Events ==
    {[ok |-> TRUE, kind |-> "Create", paths |-> <<PathA>>],
     [ok |-> TRUE, kind |-> "Remove", paths |-> <<PathB, PathA>>],
     [ok |-> TRUE, kind |-> "Modify", paths |-> <<PathRendered, PathGit, PathNotes>>],
     [ok |-> FALSE, kind |-> "Other", paths |-> <<PathA>>]}

WatchedPaths == {PathA, PathB, PathRendered, PathGit, PathNotes}

\* the project paths watch_project is called with: the second does not exist
ProjectPaths == {"/p", "/gone"}

PathExists(project) == project = "/p"

NoInstant == 0 - 1

NoEvent == [watcher |-> 0, ok |-> FALSE, kind |-> "Other", paths |-> <<>>, at |-> 0]

\* Path::components, as far as the callback reads them
components(path) == split(path, <<"/">>)

\* Path::extension, from the components: the part of the file name after its
\* last dot, None when there is no dot or nothing before it
extension(cs) ==
    LET name == cs[Len(cs)]
        dots == {i \in 1..Len(name) : name[i] = "."}
        last == CHOOSE i \in dots : \A j \in dots : j <= i
    IN  IF dots = {} \/ last = 1 THEN NoText
        ELSE Some(SubSeq(name, last + 1, Len(name)))

\* unwrap_or("") of the extension
ext(cs) == IF extension(cs) = NoText THEN <<>> ELSE extension(cs)[1]

skip(cs) == \E i \in 1..Len(cs) : cs[i] \in {<<"r", "e", "n", "d", "e", "r", "e", "d">>, <<"c", "h", "a", "r", "t", "s">>, <<".", "g", "i", "t">>}

\* the callback goes on with this path
Reported(path) ==
    \E cs \in {components(path)} :
        /\ ext(cs) \in {<<"y", "a", "m", "l">>, <<"y", "m", "l">>}
        /\ ~skip(cs)

\* now.duration_since(*last) < Duration::from_millis(300), or up to it
Duplicate_UpTo(now, last) == now - last <= DebounceMillis

Duplicate(now, last) == now - last < DebounceMillis

EventKindName(kind) ==
    CASE kind = "Create" -> "create"
      [] kind = "Remove" -> "remove"
      [] OTHER -> "modify"

\* the loop over event.paths from its k-th path on: the map and the payloads
\* emitted, given the map and the payloads so far
RECURSIVE Callback(_, _, _, _, _, _)
Callback(w, event, now, k, map, out) ==
    IF k > Len(event.paths) THEN [map |-> map, out |-> out]
    ELSE LET path == event.paths[k]
             dropped == map[path] # NoInstant /\ Duplicate(now, map[path])
         IN  IF ~Reported(path) \/ dropped
             THEN Callback(w, event, now, k + 1, map, out)
             ELSE Callback(w, event, now, k + 1, [map EXCEPT ![path] = now],
                           Append(out, [watcher |-> w, path |-> path,
                                        kind |-> EventKindName(event.kind), at |-> now]))

\* dropping the stored watcher unregisters its watches; or leaves them
Dropped_Kept(old) == {}

Dropped(old) == {old}

NoMap == [path \in WatchedPaths |-> NoInstant]

\* the maps once the watcher old is dropped: its closure and its map go with it
Forget(old) == [w \in 1..MaxWatchers |-> IF w = old THEN NoMap ELSE debounce[w]]

\* watch_project is called: the path is looked up
WatchProject ==
    /\ watchPc = "idle"
    /\ \E watch_path \in ProjectPaths :
        /\ watchCall' = watch_path
        /\ IF PathExists(watch_path)
           THEN /\ watchPc' = "create"
                /\ watchResult' = NoText
           ELSE /\ watchPc' = "returned"
                /\ watchResult' = Some("Path does not exist: " \o watch_path)
    /\ UNCHANGED <<watcher, state, watching, watchersMade, debounce, clock, delivered,
                   lastEvent, emitted>>
    /\ UNCHANGED outsideWatch

\* notify::recommended_watcher(..), with a debounce map of its own
CreateWatcher ==
    /\ watchPc = "create"
    /\ \E ok \in BOOLEAN :
        IF ok
        THEN /\ watchersMade < MaxWatchers
             /\ watchersMade' = watchersMade + 1
             /\ watcher' = watchersMade + 1
             /\ debounce' = [debounce EXCEPT ![watchersMade + 1] = NoMap]
             /\ watchPc' = "register"
             /\ UNCHANGED watchResult
        ELSE /\ watchPc' = "returned"
             /\ watchResult' = Some("Failed to create watcher: " \o IoError)
             /\ UNCHANGED <<watchersMade, watcher, debounce>>
    /\ UNCHANGED <<watchCall, state, watching, clock, delivered, lastEvent, emitted>>
    /\ UNCHANGED outsideWatch

\* watcher.watch(&watch_path, Recursive); on an error the new watcher is dropped
RegisterWatch ==
    /\ watchPc = "register"
    /\ \E ok \in BOOLEAN :
        IF ok
        THEN /\ watching' = watching \cup {watcher}
             /\ watchPc' = "store"
             /\ UNCHANGED <<watcher, watchResult>>
        ELSE /\ watchPc' = "returned"
             /\ watcher' = 0
             /\ watchResult' =
                    Some("Failed to watch " \o watchCall \o ": " \o IoError)
             /\ UNCHANGED watching
    /\ UNCHANGED <<watchCall, state, watchersMade, debounce, clock, delivered, lastEvent,
                   emitted>>
    /\ UNCHANGED outsideWatch

\* *guard = Some(watcher): the watcher stored before is dropped
StoreWatcher ==
    /\ watchPc = "store"
    /\ state' = watcher
    /\ watching' = watching \ Dropped(state)
    /\ watcher' = 0
    /\ watchResult' = Some("Ok")
    /\ watchPc' = "returned"
    /\ debounce' = Forget(state)
    /\ UNCHANGED <<watchCall, watchersMade, clock, delivered, lastEvent, emitted>>
    /\ UNCHANGED outsideWatch

WatchReturn ==
    /\ watchPc = "returned"
    /\ watchPc' = "idle"
    /\ watchResult' = NoText
    /\ watchCall' = ""
    /\ UNCHANGED <<watcher, state, watching, watchersMade, debounce, clock,
                   delivered, lastEvent, emitted>>
    /\ UNCHANGED outsideWatch

\* unwatch_project: *guard = None
UnwatchProject ==
    /\ watchPc = "idle"
    /\ state' = 0
    /\ watching' = watching \ Dropped(state)
    /\ debounce' = Forget(state)
    /\ UNCHANGED <<watchPc, watchCall, watcher, watchersMade, clock, delivered,
                   lastEvent, emitted, watchResult>>
    /\ UNCHANGED outsideWatch

\* some time after the event before, a registered watcher runs its callback
\* on one event
Deliver ==
    /\ delivered < MaxEvents
    /\ \E w \in watching, event \in Events, now \in {clock + d : d \in Delays} :
        /\ now <= MaxClock
        /\ clock' = now
        /\ delivered' = delivered + 1
        /\ lastEvent' = [watcher |-> w, ok |-> event.ok, kind |-> event.kind,
                         paths |-> event.paths, at |-> now]
        /\ IF event.ok
           THEN \E done \in {Callback(w, event, now, 1, debounce[w], <<>>)} :
                    /\ debounce' = [debounce EXCEPT ![w] = done.map]
                    /\ emitted' = emitted \o done.out
           ELSE UNCHANGED <<debounce, emitted>>
    /\ UNCHANGED <<watchPc, watchCall, watcher, state, watching, watchersMade,
                   watchResult>>
    /\ UNCHANGED outsideWatch


-----------------------------------------------------------------------------
(* The chart-release detector and the document classifier:                   *)
(* try_parse_helm_node and parse_yaml_doc, with the helpers they call.       *)

MaxDeps == 2

RECURSIVE YamlFieldScan(_, _)
\* the loop of extract_yaml_field over the lines left
YamlFieldScan(ls, key) ==
    IF ls = <<>> THEN NoText
    ELSE IF starts_with(Head(ls), <<" ">>) \/ starts_with(Head(ls), <<"\t">>)
    THEN YamlFieldScan(Tail(ls), key)
    ELSE IF FieldValue(trim(Head(ls)), key) # NoText
    THEN FieldValue(trim(Head(ls)), key)
    ELSE YamlFieldScan(Tail(ls), key)

extract_yaml_field(content, key) == YamlFieldScan(lines(content), key)

str_image == <<"i", "m", "a", "g", "e", ":">>

\* what one line gives to the filter_map and the filter of extract_images
ImageOf(line) ==
    IF ~starts_with(trim(line), str_image) THEN <<>>
    ELSE LET image == trim_matches(trim_matches(
                          trim(after_prefix(trim(line), str_image)), "\""), "'")
         IN  IF image = <<>> \/ starts_with(image, <<"{", "{">>) THEN <<>> ELSE <<image>>

extract_images(content) ==
    LET ls == lines(content)
    IN  flatten([i \in 1..Len(ls) |-> ImageOf(ls[i])])

ContainsAny(text, words) == \E i \in 1..Len(words) : contains(text, words[i])

image_to_type_id(image) ==
    LET whole == to_lowercase(image)
        untagged == split(whole, <<":">>)[1]
        segments == split(untagged, <<"/">>)
        img == segments[Len(segments)]
    IN  IF ContainsAny(img, <<<<"n", "g", "i", "n", "x">>, <<"t", "r", "a", "e", "f", "i", "k">>, <<"h", "a", "p", "r", "o", "x", "y">>, <<"e", "n", "v", "o", "y">>>>)
        THEN "gateway"
        ELSE IF ContainsAny(img, <<<<"r", "e", "d", "i", "s">>>>) THEN "cache"
        ELSE IF ContainsAny(img, <<<<"p", "o", "s", "t", "g", "r", "e", "s">>, <<"m", "y", "s", "q", "l">>, <<"m", "o", "n", "g", "o">>, <<"m", "a", "r", "i", "a", "d", "b">>, <<"c", "o", "c", "k", "r", "o", "a", "c", "h">>, <<"c", "a", "s", "s", "a", "n", "d", "r", "a">>, <<"c", "l", "i", "c", "k", "h", "o", "u", "s", "e">>>>)
        THEN "database"
        ELSE IF ContainsAny(img, <<<<"k", "a", "f", "k", "a">>, <<"r", "a", "b", "b", "i", "t", "m", "q">>, <<"n", "a", "t", "s">>, <<"p", "u", "l", "s", "a", "r">>, <<"a", "c", "t", "i", "v", "e", "m", "q">>, <<"r", "e", "d", "p", "a", "n", "d", "a">>>>)
        THEN "queue"
        ELSE IF ContainsAny(img, <<<<"p", "r", "o", "m", "e", "t", "h", "e", "u", "s">>, <<"g", "r", "a", "f", "a", "n", "a">>, <<"j", "a", "e", "g", "e", "r">>, <<"e", "l", "a", "s", "t", "i", "c", "s", "e", "a", "r", "c", "h">>, <<"k", "i", "b", "a", "n", "a">>, <<"f", "l", "u", "e", "n", "t", "d">>>>)
        THEN "monitoring"
        ELSE IF ContainsAny(img, <<<<"c", "e", "r", "t", "-", "m", "a", "n", "a", "g", "e", "r">>, <<"c", "e", "r", "t", "m", "a", "n", "a", "g", "e", "r">>>>) THEN "infra"
        ELSE "service"

chart_name_to_type_id(chart) ==
    LET c == to_lowercase(chart)
    IN  IF ContainsAny(c, <<<<"n", "g", "i", "n", "x">>, <<"t", "r", "a", "e", "f", "i", "k">>, <<"i", "n", "g", "r", "e", "s", "s">>>>) THEN "gateway"
        ELSE IF ContainsAny(c, <<<<"r", "e", "d", "i", "s">>>>) THEN "cache"
        ELSE IF ContainsAny(c, <<<<"p", "o", "s", "t", "g", "r", "e", "s">>, <<"m", "y", "s", "q", "l">>, <<"m", "o", "n", "g", "o">>, <<"m", "a", "r", "i", "a", "d", "b">>>>)
        THEN "database"
        ELSE IF ContainsAny(c, <<<<"k", "a", "f", "k", "a">>, <<"r", "a", "b", "b", "i", "t", "m", "q">>, <<"n", "a", "t", "s">>, <<"r", "e", "d", "p", "a", "n", "d", "a">>>>)
        THEN "queue"
        ELSE IF ContainsAny(c, <<<<"p", "r", "o", "m", "e", "t", "h", "e", "u", "s">>, <<"g", "r", "a", "f", "a", "n", "a">>, <<"l", "o", "k", "i">>, <<"k", "u", "b", "e", "-", "p", "r", "o", "m", "e", "t", "h", "e", "u", "s">>>>)
        THEN "monitoring"
        ELSE IF ContainsAny(c, <<<<"c", "e", "r", "t", "-", "m", "a", "n", "a", "g", "e", "r">>, <<"v", "a", "u", "l", "t">>, <<"e", "x", "t", "e", "r", "n", "a", "l", "-", "s", "e", "c", "r", "e", "t", "s">>>>)
        THEN "infra"
        ELSE "service"

\* str::replace of one character by another
replace(text, from, to) == [i \in 1..Len(text) |-> IF text[i] = from THEN to ELSE text[i]]

RECURSIVE trim_start_matches(_, _)
trim_start_matches(text, prefix) ==
    IF starts_with(text, prefix)
    THEN trim_start_matches(after_prefix(text, prefix), prefix)
    ELSE text

\* the value after a key of the dependency block, unquoted
DepValue(trimmed, key) ==
    trim_matches(trim_matches(trim(trim_start_matches(trimmed, key)), "\""), "'")

str_dependencies == <<"d", "e", "p", "e", "n", "d", "e", "n", "c", "i", "e", "s", ":">>

str_dep_name == <<"-", " ", "n", "a", "m", "e", ":">>

str_version == <<"v", "e", "r", "s", "i", "o", "n", ":">>

str_repository == <<"r", "e", "p", "o", "s", "i", "t", "o", "r", "y", ":">>

\* one more line taken in by the loop of try_parse_helm_node
DepLine(acc, line) ==
    LET trimmed == trim(line)
    IN  IF trimmed = str_dependencies THEN [acc EXCEPT !.in_deps = TRUE]
        ELSE IF ~acc.in_deps THEN acc
        ELSE IF starts_with(trimmed, str_dep_name)
        THEN [acc EXCEPT !.dep_name = DepValue(trimmed, str_dep_name),
                         !.dep_started = TRUE]
        ELSE IF acc.dep_started /\ starts_with(trimmed, str_version)
        THEN [acc EXCEPT !.dep_version = DepValue(trimmed, str_version)]
        ELSE IF acc.dep_started /\ starts_with(trimmed, str_repository)
        THEN [acc EXCEPT !.dep_repo = DepValue(trimmed, str_repository)]
        ELSE acc

RECURSIVE DepScan(_, _, _)
\* the loop of try_parse_helm_node over the lines from the k-th on
DepScan(ls, k, acc) ==
    IF k > Len(ls) THEN acc ELSE DepScan(ls, k + 1, DepLine(acc, ls[k]))

NoDep == [dep_name |-> <<>>, dep_version |-> <<>>, dep_repo |-> <<>>,
          in_deps |-> FALSE, dep_started |-> FALSE]

key_name == <<"n", "a", "m", "e">>

cache_dir == <<"/", "p", "/", "i", "n", "f", "r", "a", "/", "c", "a", "c", "h", "e">>

\* Path::file_name of a path without a trailing slash
file_name(path) == split(path, <<"/">>)[Len(split(path, <<"/">>))]

\* dir holds: chart, whether helm/Chart.yaml is "absent", "unreadable" or a
\* "file", and chart_text, what it says; ns and ns_text, the same for
\* namespace.yaml
try_parse_helm_node(component_dir, dir) ==
    IF dir.chart \in {"absent", "unreadable"} THEN <<>>
    ELSE LET dep == DepScan(lines(dir.chart_text), 1, NoDep)
             release_name == file_name(component_dir)
             ns == IF dir.ns = "absent" THEN <<"i", "n", "f", "r", "a", "-">> \o release_name
                   ELSE IF dir.ns = "unreadable" THEN <<"i", "n", "f", "r", "a">>
                   ELSE IF extract_metadata_field(dir.ns_text, key_name) = NoText
                   THEN <<"i", "n", "f", "r", "a">>
                   ELSE extract_metadata_field(dir.ns_text, key_name)[1]
         IN  IF dep.dep_name = <<>> THEN <<>>
             ELSE <<[id |-> <<"h", "e", "l", "m", "-">> \o release_name,
                     label |-> release_name,
                     kind |-> <<"H", "e", "l", "m", "R", "e", "l", "e", "a", "s", "e">>,
                     image |-> <<"h", "e", "l", "m", ":">> \o dep.dep_name \o <<"/">> \o dep.dep_version,
                     type_id |-> chart_name_to_type_id(dep.dep_name),
                     namespace |-> ns,
                     file_path |-> component_dir \o <<"/", "h", "e", "l", "m", "/", "C", "h", "a", "r", "t", ".", "y", "a", "m", "l">>,
                     replicas |-> NoText,
                     source |-> "helm",
                     helm |-> <<[release_name |-> release_name,
                                 namespace |-> ns,
                                 chart_name |-> dep.dep_name,
                                 chart_version |-> dep.dep_version,
                                 repo |-> dep.dep_repo,
                                 values_path |-> component_dir \o <<"/", "h", "e", "l", "m", "/", "v", "a", "l", "u", "e", "s", ".", "y", "a", "m", "l">>,
                                 rendered_dir |-> component_dir \o <<"/", "r", "e", "n", "d", "e", "r", "e", "d">>]>>]>>

\* the table with the kind Service added to it
workloads_AndService ==
    {<<"D", "e", "p", "l", "o", "y", "m", "e", "n", "t">>,
     <<"S", "t", "a", "t", "e", "f", "u", "l", "S", "e", "t">>,
     <<"D", "a", "e", "m", "o", "n", "S", "e", "t">>,
     <<"J", "o", "b">>,
     <<"C", "r", "o", "n", "J", "o", "b">>,
     <<"R", "e", "p", "l", "i", "c", "a", "S", "e", "t">>,
     <<"P", "o", "d">>,
     <<"S", "e", "r", "v", "i", "c", "e">>}

workloads ==
    {<<"D", "e", "p", "l", "o", "y", "m", "e", "n", "t">>,
     <<"S", "t", "a", "t", "e", "f", "u", "l", "S", "e", "t">>,
     <<"D", "a", "e", "m", "o", "n", "S", "e", "t">>,
     <<"J", "o", "b">>,
     <<"C", "r", "o", "n", "J", "o", "b">>,
     <<"R", "e", "p", "l", "i", "c", "a", "S", "e", "t">>,
     <<"P", "o", "d">>}

\* Path::file_stem: the file name up to its last dot
file_stem(path) ==
    LET name == file_name(path)
        dots == {i \in 2..Len(name) : name[i] = "."}
    IN  IF dots = {} THEN name
        ELSE SubSeq(name, 1, (CHOOSE i \in dots : \A j \in dots : j <= i) - 1)

key_namespace == <<"n", "a", "m", "e", "s", "p", "a", "c", "e">>

OrElse(option, default) == IF option = NoText THEN default ELSE option[1]

parse_yaml_doc(doc, path, idx) ==
    LET kind == extract_yaml_field(doc, <<"k", "i", "n", "d">>)
        name == OrElse(extract_metadata_field(doc, key_name), <<"u", "n", "k", "n", "o", "w", "n">>)
        images == extract_images(doc)
    IN  IF kind = NoText THEN <<>>
        ELSE IF kind[1] \notin workloads THEN <<>>
        ELSE <<[id |-> replace(replace(name, "/", "-"), ".", "-") \o <<"-">>
                          \o file_stem(path) \o <<"-">> \o Chars(idx),
                label |-> name,
                kind |-> kind[1],
                image |-> IF images # <<>> THEN images[1] ELSE <<>>,
                type_id |-> IF images # <<>> THEN image_to_type_id(images[1])
                            ELSE IF kind[1] \in {<<"S", "e", "r", "v", "i", "c", "e">>, <<"I", "n", "g", "r", "e", "s", "s">>}
                            THEN "gateway"
                            ELSE IF kind[1] \in {<<"C", "o", "n", "f", "i", "g", "M", "a", "p">>, <<"S", "e", "c", "r", "e", "t">>}
                            THEN "config"
                            ELSE "service",
                namespace |-> OrElse(extract_metadata_field(doc, key_namespace),
                                     <<"d", "e", "f", "a", "u", "l", "t">>),
                file_path |-> path,
                replicas |-> extract_replicas(doc),
                source |-> "raw",
                helm |-> <<>>]>>

\* the dependency entries a chart descriptor may list; the last has no version
DepRedis == [name |-> <<"r", "e", "d", "i", "s">>, version |-> <<"1", "8", ".", "0", ".", "1">>, repository |-> <<"h", "t", "t", "p", "s", ":", "/", "/", "a", ".", "i", "o", "/", "r">>]

DepCommon == [name |-> <<"c", "o", "m", "m", "o", "n">>, version |-> <<"2", ".", "1">>, repository |-> <<"o", "c", "i", ":", "/", "/", "b", ".", "i", "o", "/", "c">>]

DepPlain == [name |-> <<"p", "g", "s", "q", "l">>, version |-> <<>>, repository |-> <<>>]

Deps == {DepRedis, DepCommon, DepPlain}

DepText(dep) ==
    <<" ", " ", "-", " ", "n", "a", "m", "e", ":", " ">> \o dep.name \o <<"\n">>
    \o (IF dep.version = <<>> THEN <<>>
        ELSE <<" ", " ", " ", " ", "v", "e", "r", "s", "i", "o", "n", ":", " ", "\"">> \o dep.version \o <<"\"", "\n">>)
    \o (IF dep.repository = <<>> THEN <<>>
        ELSE <<" ", " ", " ", " ", "r", "e", "p", "o", "s", "i", "t", "o", "r", "y", ":", " ">> \o dep.repository \o <<"\n">>)

\* Chart.yaml with the dependencies deps, and after them, if trailer, a list
\* of maintainers
ChartText(deps, trailer) ==
    <<"n", "a", "m", "e", ":", " ", "c", "a", "c", "h", "e", "\n">>
    \o (IF deps = <<>> THEN <<>> ELSE <<"d", "e", "p", "e", "n", "d", "e", "n", "c", "i", "e", "s", ":", "\n">>)
    \o flatten([i \in 1..Len(deps) |-> DepText(deps[i])])
    \o (IF trailer THEN <<"m", "a", "i", "n", "t", "a", "i", "n", "e", "r", "s", ":", "\n", " ", " ", "-", " ", "n", "a", "m", "e", ":", " ", "b", "o", "b", "\n">> ELSE <<>>)

DepLists == UNION {[1..n -> Deps] : n \in 0..MaxDeps}

FileStates == {"absent", "unreadable", "file"}

\* one call of try_parse_helm_node
TryParseHelmNode ==
    /\ classPc = "idle"
    /\ \E deps \in DepLists, trailer \in BOOLEAN, chart \in FileStates, ns \in FileStates :
        /\ chart # "file" => deps = <<>> /\ ~trailer /\ ns = "absent"
        /\ classInput' = [op |-> "try_parse_helm_node", deps |-> deps,
                          trailer |-> trailer, chart |-> chart, ns |-> ns]
        /\ classNode' = try_parse_helm_node(cache_dir,
               [chart |-> chart, chart_text |-> ChartText(deps, trailer),
                ns |-> ns, ns_text |-> RenderedNamespace])
    /\ classPc' = "returned"
    /\ UNCHANGED outsideClass

\* the documents given to parse_yaml_doc: kind and name are what the document
\* says at its top level and under metadata, <<>> when it says neither

DocKinds == {<<>>, <<"D", "e", "p", "l", "o", "y", "m", "e", "n", "t">>, <<"C", "r", "o", "n", "J", "o", "b">>, <<"P", "o", "d">>, <<"S", "e", "r", "v", "i", "c", "e">>, <<"d", "e", "p", "l", "o", "y", "m", "e", "n", "t">>}

DocNames == {<<>>, <<"w", "e", "b">>, <<"a", "/", "b", ".", "c">>}

DocStyles == {"plain", "quoted", "nested", "image"}

DocText(kind, name, style) ==
    (IF style = "nested" THEN <<"#", " ", "S", "o", "u", "r", "c", "e", ":", " ", "x", ".", "y", "a", "m", "l", "\n">> ELSE <<>>)
    \o (IF kind = <<>> THEN <<>>
        ELSE IF style = "quoted" THEN <<"k", "i", "n", "d", ":", " ", "\"">> \o kind \o <<"\"", "\n">>
        ELSE <<"k", "i", "n", "d", ":", " ">> \o kind \o <<"\n">>)
    \o <<"m", "e", "t", "a", "d", "a", "t", "a", ":", "\n">>
    \o (IF style = "nested" THEN <<" ", " ", "l", "a", "b", "e", "l", "s", ":", "\n", " ", " ", " ", " ", "n", "a", "m", "e", ":", " ", "i", "n", "n", "e", "r", "\n">> ELSE <<>>)
    \o (IF name = <<>> THEN <<>>
        ELSE IF style = "quoted" THEN <<" ", " ", "n", "a", "m", "e", ":", " ", "'">> \o name \o <<"'", "\n">>
        ELSE <<" ", " ", "n", "a", "m", "e", ":", " ">> \o name \o <<"\n">>)
    \o (IF style = "quoted" THEN <<" ", " ", "n", "a", "m", "e", "s", "p", "a", "c", "e", ":", " ", "p", "r", "o", "d", "\n">> ELSE <<>>)
    \o <<"s", "p", "e", "c", ":", "\n">>
    \o (IF style = "nested" THEN <<" ", " ", "k", "i", "n", "d", ":", " ", "J", "o", "b", "\n", " ", " ", "n", "a", "m", "e", ":", " ", "o", "t", "h", "e", "r", "\n">> ELSE <<>>)
    \o (IF style = "image" THEN <<" ", " ", "r", "e", "p", "l", "i", "c", "a", "s", ":", " ", "2", "\n", " ", " ", " ", " ", "-", " ", "i", "m", "a", "g", "e", ":", " ", "\"", "R", "e", "d", "i", "s", ":", "7", "\"", "\n">> ELSE <<>>)

doc_path == <<"/", "p", "/", "a", "p", "p", "s", "/", "w", "e", "b", ".", "y", "a", "m", "l">>

MaxIndex == 1

\* one call of parse_yaml_doc, on the trimmed document as parse_yaml_file
\* hands it over
ParseYamlDoc ==
    /\ classPc = "idle"
    /\ \E kind \in DocKinds, name \in DocNames, style \in DocStyles, idx \in 0..MaxIndex :
        /\ classInput' = [op |-> "parse_yaml_doc", kind |-> kind, name |-> name,
                          style |-> style, idx |-> idx]
        /\ classNode' = parse_yaml_doc(trim(DocText(kind, name, style)), doc_path, idx)
    /\ classPc' = "returned"
    /\ UNCHANGED outsideClass

ClassReturn ==
    /\ classPc = "returned"
    /\ classPc' = "idle"
    /\ classInput' = [op |-> "none"]
    /\ classNode' = <<>>
    /\ UNCHANGED outsideClass


-----------------------------------------------------------------------------
(* scan_dir and parse_yaml_file on a project tree *)

\* An entry of the tree: a directory with its entries, or a file with its
\* content. Nothing of an entry that is not readable can be opened or listed.
FileEntry(name, readable, content) ==
    [name |-> name, is_dir |-> FALSE, readable |-> readable,
     content |-> content, entries |-> <<>>]

DirEntry(name, readable, children) ==
    [name |-> name, is_dir |-> TRUE, readable |-> readable,
     content |-> <<>>, entries |-> children]

NoEntry == <<>>

\* the entry of that name in a directory, if it can be reached
Child(dir, name) ==
    IF dir = NoEntry \/ ~dir[1].is_dir \/ ~dir[1].readable THEN NoEntry
    ELSE LET hits == {i \in 1..Len(dir[1].entries) : dir[1].entries[i].name = name}
         IN  IF hits = {} THEN NoEntry ELSE <<dir[1].entries[CHOOSE i \in hits : TRUE]>>

\* Path::exists and fs::read_to_string on a file two levels below dir
StateOf(file) ==
    IF file = NoEntry \/ file[1].is_dir THEN "absent"
    ELSE IF file[1].readable THEN "file" ELSE "unreadable"

TextOf(file) == IF file = NoEntry THEN <<>> ELSE file[1].content

str_helm == <<"h", "e", "l", "m">>

str_chart_yaml == <<"C", "h", "a", "r", "t", ".", "y", "a", "m", "l">>

str_namespace_yaml == <<"n", "a", "m", "e", "s", "p", "a", "c", "e", ".", "y", "a", "m", "l">>

\* what try_parse_helm_node finds in a directory of the tree
DetectorInput(entry) ==
    LET chart == Child(Child(<<entry>>, str_helm), str_chart_yaml)
        ns == Child(<<entry>>, str_namespace_yaml)
    IN  [chart |-> StateOf(chart), chart_text |-> TextOf(chart),
         ns |-> StateOf(ns), ns_text |-> TextOf(ns)]

io_error == <<"P", "e", "r", "m", "i", "s", "s", "i", "o", "n", " ", "d", "e", "n", "i", "e", "d", " ", "(", "o", "s", " ", "e", "r", "r", "o", "r", " ", "1", "3", ")">>

\* the documents of a file, trimmed, as parse_yaml_file hands them over
parse_yaml_file(path, content) ==
    LET docs == split(content, str_separator)
    IN  flatten([i \in 1..Len(docs) |-> parse_yaml_doc(trim(docs[i]), path, i - 1)])

ignored_dirs == {<<"n", "o", "d", "e", "_", "m", "o", "d", "u", "l", "e", "s">>, <<"v", "e", "n", "d", "o", "r">>, <<"c", "h", "a", "r", "t", "s">>, <<"r", "e", "n", "d", "e", "r", "e", "d">>}

\* the directory entries scan_dir passes over
Ignored(name) == starts_with(name, <<".">>) \/ name \in ignored_dirs

\* the files scan_dir hands to parse_yaml_file
Qualifies(path) ==
    \E cs \in {components(path)} :
        /\ ext(cs) \in {<<"y", "a", "m", "l">>, <<"y", "m", "l">>}
        /\ \A i \in 1..Len(cs) : cs[i] \notin {<<"r", "e", "n", "d", "e", "r", "e", "d">>, <<"c", "h", "a", "r", "t", "s">>}

RECURSIVE scan_dir(_, _, _)

\* the variant that goes on into the directory of a release
AfterRelease_Descend(path, entry, acc) == scan_dir(path, entry, acc)

\* `continue` after the node of a release: nothing beneath it is looked at
AfterRelease(path, entry, acc) == acc

\* the body of the loop of scan_dir for one entry
ScanEntry(path, entry, acc) ==
    IF entry.is_dir
    THEN IF Ignored(entry.name) THEN acc
         ELSE LET helm_node == try_parse_helm_node(path, DetectorInput(entry))
              IN  IF helm_node # <<>>
                  THEN AfterRelease(path, entry,
                           [acc EXCEPT !.nodes = Append(@, helm_node[1]),
                                       !.units = Append(@, path)])
                  ELSE scan_dir(path, entry, acc)
    ELSE IF ~Qualifies(path) THEN acc
    ELSE IF entry.readable
    THEN [acc EXCEPT !.nodes = @ \o parse_yaml_file(path, entry.content),
                     !.visited = Append(@, path)]
    ELSE [acc EXCEPT !.errors = Append(@, path \o <<":", " ">> \o io_error),
                     !.visited = Append(@, path)]

RECURSIVE ScanEntries(_, _, _, _)
\* the loop of scan_dir from the k-th entry on
ScanEntries(dir, entry, k, acc) ==
    IF k > Len(entry.entries) THEN acc
    ELSE ScanEntries(dir, entry, k + 1,
             ScanEntry(dir \o <<"/">> \o entry.entries[k].name, entry.entries[k], acc))

scan_dir(dir, entry, acc) ==
    IF ~entry.readable
    THEN [acc EXCEPT !.errors = Append(@, <<"C", "a", "n", "n", "o", "t", " ", "r", "e", "a", "d", ":", " ">> \o dir),
                     !.visited = Append(@, dir)]
    ELSE ScanEntries(dir, entry, 1, [acc EXCEPT !.visited = Append(@, dir)])

\* the files of the project tree

WebYaml == <<"k", "i", "n", "d", ":", " ", "D", "e", "p", "l", "o", "y", "m", "e", "n", "t", "\n", "m", "e", "t", "a", "d", "a", "t", "a", ":", "\n", " ", " ", "n", "a", "m", "e", ":", " ", "w", "e", "b", "\n", "s", "p", "e", "c", ":", "\n", " ", " ", "r", "e", "p", "l", "i", "c", "a", "s", ":", " ", "2", "\n", " ", " ", " ", " ", " ", " ", "-", " ", "i", "m", "a", "g", "e", ":", " ", "n", "g", "i", "n", "x", ":", "1", ".", "2", "5", "\n">>

JobYaml == <<"k", "i", "n", "d", ":", " ", "J", "o", "b", "\n", "m", "e", "t", "a", "d", "a", "t", "a", ":", "\n", " ", " ", "n", "a", "m", "e", ":", " ", "m", "i", "g", "r", "a", "t", "e", "\n">>

TopYaml == <<"k", "i", "n", "d", ":", " ", "P", "o", "d", "\n", "m", "e", "t", "a", "d", "a", "t", "a", ":", "\n", " ", " ", "n", "a", "m", "e", ":", " ", "o", "n", "e", "\n", "-", "-", "-", "\n", "k", "i", "n", "d", ":", " ", "S", "e", "r", "v", "i", "c", "e", "\n", "m", "e", "t", "a", "d", "a", "t", "a", ":", "\n", " ", " ", "n", "a", "m", "e", ":", " ", "o", "n", "e", "\n", "-", "-", "-", "\n", "k", "i", "n", "d", ":", " ", "J", "o", "b", "\n", "m", "e", "t", "a", "d", "a", "t", "a", ":", "\n", " ", " ", "n", "a", "m", "e", ":", " ", "t", "w", "o", "\n">>

ChartOf(chart) ==
    IF chart = "release" THEN ChartText(<<DepRedis>>, FALSE) ELSE ChartText(<<>>, TRUE)

\* The tree of a project: apps/ with a manifest, a text file and a charts/
\* directory; cache/ with a manifest, a namespace, a rendered/ directory and,
\* unless chart is "none", helm/Chart.yaml; hidden and ignored directories;
\* a manifest of three documents at the top.
CacheDir(in) ==
    DirEntry(<<"c", "a", "c", "h", "e">>, in.cache_ok,
        <<FileEntry(<<"j", "o", "b", ".", "y", "a", "m", "l">>, in.job_ok, JobYaml),
          FileEntry(str_namespace_yaml, TRUE, RenderedNamespace),
          DirEntry(<<"r", "e", "n", "d", "e", "r", "e", "d">>, TRUE,
              <<FileEntry(<<"0", "0", "-", "d", "e", "p", "l", "o", "y", "m", "e", "n", "t", "-", "w", "e", "b", ".", "y", "a", "m", "l">>, TRUE, WebYaml)>>)>>
        \o (IF in.chart = "none" THEN <<>>
            ELSE <<DirEntry(str_helm, TRUE,
                      <<FileEntry(str_chart_yaml, in.chart # "unreadable",
                                  ChartOf(in.chart))>>)>>))

AppsDir(in) ==
    DirEntry(<<"a", "p", "p", "s">>, in.apps_ok,
        <<FileEntry(<<"w", "e", "b", ".", "y", "a", "m", "l">>, in.web_ok, WebYaml),
          FileEntry(<<"n", "o", "t", "e", "s", ".", "t", "x", "t">>, FALSE, <<>>),
          DirEntry(<<"c", "h", "a", "r", "t", "s">>, FALSE, <<>>)>>)

Rotate(list, n) == [i \in 1..Len(list) |-> list[((i + n - 1) % Len(list)) + 1]]

ProjectTree(in) ==
    DirEntry(<<"p">>, in.root_ok,
        Rotate(<<AppsDir(in), CacheDir(in),
                 FileEntry(<<"t", "o", "p", ".", "y", "m", "l">>, in.top_ok, TopYaml)>>, in.first)
        \o <<DirEntry(<<".", "g", "i", "t">>, FALSE, <<>>),
             DirEntry(<<"v", "e", "n", "d", "o", "r">>, TRUE,
                 <<FileEntry(<<"w", "e", "b", ".", "y", "a", "m", "l">>, TRUE, WebYaml)>>)>>)

root_path == <<"/", "p">>

ChartStates == {"none", "unreadable", "plain", "release"}

NoWalk == [nodes |-> <<>>, errors |-> <<>>, visited |-> <<>>, units |-> <<>>]

\* one walk of scan_dir over a project tree; read_dir lists the entries of
\* the project folder in one of three orders
ScanDir ==
    /\ walkPc = "idle"
    /\ \E root_ok, apps_ok, web_ok, cache_ok, job_ok, top_ok \in BOOLEAN,
          chart \in ChartStates, first \in 0..2 :
        \E in \in {[op |-> "scan_dir", root_ok |-> root_ok, apps_ok |-> apps_ok,
                    web_ok |-> web_ok, cache_ok |-> cache_ok, job_ok |-> job_ok,
                    top_ok |-> top_ok, chart |-> chart, first |-> first]} :
            /\ walkInput' = in
            /\ walk' = scan_dir(root_path, ProjectTree(in), NoWalk)
    /\ walkPc' = "returned"
    /\ UNCHANGED outsideWalk

WalkReturn ==
    /\ walkPc = "returned"
    /\ walkPc' = "idle"
    /\ walkInput' = [op |-> "none"]
    /\ walk' = NoWalk
    /\ UNCHANGED outsideWalk


-----------------------------------------------------------------------------
(* delete_field_files *)

MaxPaths == 2

RECURSIVE LastSlash(_, _)
LastSlash(path, k) ==
    IF k = 0 \/ path[k] = "/" THEN k ELSE LastSlash(path, k - 1)

\* Path::parent of an absolute path below the root
ParentOf(path) == SubSeq(path, 1, LastSlash(path, Len(path)) - 1)

\* the disk: the paths of its files and of its directories
exists(disk, path) == path \in disk.files \cup disk.dirs

is_dir(disk, path) == path \in disk.dirs

is_file(disk, path) == path \in disk.files

\* fs::read_dir(dir) yields nothing
IsEmpty(disk, dir) == \A e \in disk.files \cup disk.dirs : ParentOf(e) # dir

\* fs::remove_dir_all and fs::remove_file when they succeed
remove_dir_all(disk, path) ==
    [files |-> {f \in disk.files : ~starts_with(f, path \o <<"/">>)},
     dirs |-> {d \in disk.dirs : d # path /\ ~starts_with(d, path \o <<"/">>)}]

remove_file(disk, path) == [disk EXCEPT !.files = @ \ {path}]

remove_dir(disk, path) == [disk EXCEPT !.dirs = @ \ {path}]

kubectl_deleted == <<"d", "e", "p", "l", "o", "y", "m", "e", "n", "t", ".", "a", "p", "p", "s", " ", "\"", "w", "e", "b", "\"", " ", "d", "e", "l", "e", "t", "e", "d", "\n">>

kubectl_failed == <<"e", "r", "r", "o", "r", ":", " ", "u", "n", "a", "b", "l", "e", " ", "t", "o", " ", "c", "o", "n", "n", "e", "c", "t", " ", "t", "o", " ", "t", "h", "e", " ", "s", "e", "r", "v", "e", "r", "\n">>

\* the marks are a check mark, a cross and an arrow in the source
mark_ok == <<"o", "k", " ">>

mark_err == <<"x", " ">>

mark_arrow == <<" ", "-", ">", " ">>

\* Step 1: kubectl delete -f on the path, its answer kept as a line
KubectlDelete(acc, path, kube) ==
    LET args == IF is_dir(acc.disk, path)
                THEN <<"delete", "-f", path, "--recursive", "--ignore-not-found=true">>
                ELSE <<"delete", "-f", path, "--ignore-not-found=true">>
        called == [acc EXCEPT !.kubectl_calls = Append(@, args)]
    IN  IF kube = "failed"
        THEN [called EXCEPT !.kubectl_err_lines =
                 Append(@, mark_err \o path \o mark_arrow \o trim(kubectl_failed))]
        ELSE IF kube = "deleted"
        THEN [called EXCEPT !.kubectl_out_lines =
                 Append(@, mark_ok \o path \o mark_arrow \o trim(kubectl_deleted))]
        ELSE called

\* the clean-up of the parent directory of a single file
CleanParent(disk, path) ==
    IF ~is_file(disk, path) THEN disk
    ELSE IF ~is_dir(disk, ParentOf(path)) THEN disk
    ELSE IF IsEmpty(disk, ParentOf(path)) THEN remove_dir(disk, ParentOf(path))
    ELSE disk

\* Step 2: the path is removed from the disk, or the failure is kept
DiskDelete(acc, path, rm) ==
    LET tried == [acc EXCEPT !.disk_calls = Append(@, path)]
    IN  IF rm = "failed"
        THEN [tried EXCEPT !.file_errors = Append(@, path \o <<":", " ">> \o io_error)]
        ELSE LET removed == IF is_dir(acc.disk, path) THEN remove_dir_all(acc.disk, path)
                            ELSE remove_file(acc.disk, path)
             IN  [tried EXCEPT !.deleted_files = Append(@, path),
                               !.disk = CleanParent(removed, path)]

\* the variant in which a failed cluster delete ends the work on the path
ClusterThenDisk_UnlessFailed(acc, path, kube, rm) ==
    IF kube = "failed" THEN KubectlDelete(acc, path, kube)
    ELSE DiskDelete(KubectlDelete(acc, path, kube), path, rm)

\* both steps, one after the other, whatever kubectl answered
ClusterThenDisk(acc, path, kube, rm) ==
    DiskDelete(KubectlDelete(acc, path, kube), path, rm)

\* the body of the loop for one path
DeleteOne(acc, path, kube, rm) ==
    IF ~exists(acc.disk, path)
    THEN [acc EXCEPT !.missing_files = Append(@, path), !.existed = Append(@, FALSE)]
    ELSE ClusterThenDisk([acc EXCEPT !.existed = Append(@, TRUE)], path, kube, rm)

RECURSIVE DeleteLoop(_, _, _)
DeleteLoop(acc, in, k) ==
    IF k > Len(in.file_paths) THEN acc
    ELSE DeleteLoop(DeleteOne(acc, in.file_paths[k], in.kube[k], in.rm[k]), in, k + 1)

NoDeleteResult ==
    [deleted_files |-> <<>>, missing_files |-> <<>>, file_errors |-> <<>>,
     kubectl_output |-> <<>>, kubectl_error |-> <<>>,
     kubectl_calls |-> <<>>, disk_calls |-> <<>>, existed |-> <<>>]

\* the work of delete_field_files on a disk: the result, the calls, whether
\* each path was there when its turn came, and the disk as it is left
delete_field_files(disk, in) ==
    LET done == DeleteLoop(NoDeleteResult @@
                           [disk |-> disk, kubectl_out_lines |-> <<>>,
                            kubectl_err_lines |-> <<>>], in, 1)
    IN  [deleted_files |-> done.deleted_files,
         missing_files |-> done.missing_files,
         file_errors |-> done.file_errors,
         kubectl_output |-> IF done.kubectl_out_lines # <<>>
                            THEN <<join(done.kubectl_out_lines, <<"\n">>)>> ELSE <<>>,
         kubectl_error |-> IF done.kubectl_err_lines # <<>>
                           THEN <<join(done.kubectl_err_lines, <<"\n">>)>> ELSE <<>>,
         kubectl_calls |-> done.kubectl_calls,
         disk_calls |-> done.disk_calls,
         existed |-> done.existed,
         disk |-> done.disk]

DeploymentPath == <<"/", "p", "/", "a", "p", "p", "s", "/", "w", "e", "b", "/", "d", "e", "p", "l", "o", "y", "m", "e", "n", "t", ".", "y", "a", "m", "l">>

ServicePath == <<"/", "p", "/", "a", "p", "p", "s", "/", "w", "e", "b", "/", "s", "e", "r", "v", "i", "c", "e", ".", "y", "a", "m", "l">>

JobPath == <<"/", "p", "/", "a", "p", "p", "s", "/", "s", "o", "l", "o", "/", "j", "o", "b", ".", "y", "a", "m", "l">>

CachePath == <<"/", "p", "/", "i", "n", "f", "r", "a", "/", "c", "a", "c", "h", "e">>

GonePath == <<"/", "p", "/", "g", "o", "n", "e", ".", "y", "a", "m", "l">>

ProjectDisk ==
    [files |-> {DeploymentPath, ServicePath, JobPath,
                CachePath \o <<"/", "h", "e", "l", "m", "/", "C", "h", "a", "r", "t", ".", "y", "a", "m", "l">>},
     dirs |-> {<<"/", "p">>, <<"/", "p", "/", "a", "p", "p", "s">>, <<"/", "p", "/", "a", "p", "p", "s", "/", "w", "e", "b">>, <<"/", "p", "/", "a", "p", "p", "s", "/", "s", "o", "l", "o">>, <<"/", "p", "/", "i", "n", "f", "r", "a">>,
               CachePath, CachePath \o <<"/", "h", "e", "l", "m">>}]

DeletePaths == {DeploymentPath, ServicePath, JobPath, CachePath, GonePath}

KubectlOutcomes == {"quiet", "deleted", "failed"}

RemoveOutcomes == {"removed", "failed"}

\* one call of delete_field_files on the project as generated
DeleteFieldFiles ==
    /\ delPc = "idle"
    /\ \E n \in 0..MaxPaths :
        \E file_paths \in [1..n -> DeletePaths], kube \in [1..n -> KubectlOutcomes],
           rm \in [1..n -> RemoveOutcomes] :
            \E done \in {delete_field_files(delDisk,
                             [file_paths |-> file_paths, kube |-> kube, rm |-> rm])} :
                /\ delInput' = [op |-> "delete_field_files", file_paths |-> file_paths,
                                kube |-> kube, rm |-> rm]
                /\ delResult' = [f \in DOMAIN NoDeleteResult |-> done[f]]
                /\ delDisk' = done.disk
    /\ delPc' = "returned"
    /\ UNCHANGED outsideDel

\* the caller takes the DeleteResult; the project is generated anew
DeleteReturn ==
    /\ delPc = "returned"
    /\ delPc' = "idle"
    /\ delInput' = [op |-> "none"]
    /\ delDisk' = ProjectDisk
    /\ delResult' = NoDeleteResult
    /\ UNCHANGED outsideDel


-----------------------------------------------------------------------------
(* deploy_image: the manifests of an image and their application *)

\* value.replace('"', "\\\"")
escape_quotes(value) ==
    flatten([i \in 1..Len(value) |->
        IF value[i] = "\"" THEN <<"\\", "\"">> ELSE <<value[i]>>])

gen_image_namespace(ns) ==
    <<"a", "p", "i", "V", "e", "r", "s", "i", "o", "n", ":", " ", "v", "1", "\n", "k", "i", "n", "d", ":", " ", "N", "a", "m", "e", "s", "p", "a", "c", "e", "\n", "m", "e", "t", "a", "d", "a", "t", "a", ":", "\n", " ", " ", "n", "a", "m", "e", ":", " ">>
    \o ns
    \o <<"\n", " ", " ", "l", "a", "b", "e", "l", "s", ":", "\n", " ", " ", " ", " ", "a", "p", "p", ".", "k", "u", "b", "e", "r", "n", "e", "t", "e", "s", ".", "i", "o", "/", "m", "a", "n", "a", "g", "e", "d", "-", "b", "y", ":", " ", "e", "n", "d", "f", "i", "e", "l", "d", "\n", " ", " ", " ", " ", "e", "n", "d", "f", "i", "e", "l", "d", "/", "t", "y", "p", "e", ":", " ", "i", "m", "a", "g", "e", "-", "d", "e", "p", "l", "o", "y", "\n">>

secret_suffix == <<"-", "s", "e", "c", "r", "e", "t", "s">>

gen_image_secret(name, ns, secret_vars) ==
    LET secret_name == name \o secret_suffix
        data == flatten([i \in 1..Len(secret_vars) |->
                    <<" ", " ">> \o secret_vars[i].key \o <<":", " ", "\"">>
                        \o escape_quotes(secret_vars[i].value) \o <<"\"", "\n">>])
    IN  <<"a", "p", "i", "V", "e", "r", "s", "i", "o", "n", ":", " ", "v", "1", "\n", "k", "i", "n", "d", ":", " ", "S", "e", "c", "r", "e", "t", "\n", "m", "e", "t", "a", "d", "a", "t", "a", ":", "\n", " ", " ", "n", "a", "m", "e", ":", " ">>
        \o secret_name
        \o <<"\n", " ", " ", "n", "a", "m", "e", "s", "p", "a", "c", "e", ":", " ">>
        \o ns
        \o <<"\n", " ", " ", "l", "a", "b", "e", "l", "s", ":", "\n", " ", " ", " ", " ", "a", "p", "p", ".", "k", "u", "b", "e", "r", "n", "e", "t", "e", "s", ".", "i", "o", "/", "n", "a", "m", "e", ":", " ">>
        \o name
        \o <<"\n", " ", " ", " ", " ", "a", "p", "p", ".", "k", "u", "b", "e", "r", "n", "e", "t", "e", "s", ".", "i", "o", "/", "m", "a", "n", "a", "g", "e", "d", "-", "b", "y", ":", " ", "e", "n", "d", "f", "i", "e", "l", "d", "\n", " ", " ", " ", " ", "e", "n", "d", "f", "i", "e", "l", "d", "/", "t", "y", "p", "e", ":", " ", "i", "m", "a", "g", "e", "-", "d", "e", "p", "l", "o", "y", "\n", " ", " ", " ", " ", "e", "n", "d", "f", "i", "e", "l", "d", "/", "n", "a", "m", "e", "s", "p", "a", "c", "e", ":", " ">>
        \o ns
        \o <<"\n", "t", "y", "p", "e", ":", " ", "O", "p", "a", "q", "u", "e", "\n", "s", "t", "r", "i", "n", "g", "D", "a", "t", "a", ":", "\n">>
        \o data

\* one port of the container, with its name if it has one
PortLines(port) ==
    <<" ", " ", " ", " ", " ", " ", " ", " ", " ", " ", " ", " ", "-", " ", "c", "o", "n", "t", "a", "i", "n", "e", "r", "P", "o", "r", "t", ":", " ">> \o Chars(port.container_port) \o <<"\n">>
    \o (IF port.name # <<>> /\ port.name[1] # <<>>
        THEN <<" ", " ", " ", " ", " ", " ", " ", " ", " ", " ", " ", " ", " ", " ", "n", "a", "m", "e", ":", " ">> \o port.name[1] \o <<"\n">>
        ELSE <<>>)

PlainEnv(e) ==
    <<" ", " ", " ", " ", " ", " ", " ", " ", " ", " ", " ", " ", "-", " ", "n", "a", "m", "e", ":", " ">> \o e.key \o <<"\n">>
    \o <<" ", " ", " ", " ", " ", " ", " ", " ", " ", " ", " ", " ", " ", " ", "v", "a", "l", "u", "e", ":", " ", "\"">> \o escape_quotes(e.value) \o <<"\"", "\n">>

SecretEnv(e, secret_name) ==
    <<" ", " ", " ", " ", " ", " ", " ", " ", " ", " ", " ", " ", "-", " ", "n", "a", "m", "e", ":", " ">>
    \o e.key
    \o <<"\n", " ", " ", " ", " ", " ", " ", " ", " ", " ", " ", " ", " ", " ", " ", "v", "a", "l", "u", "e", "F", "r", "o", "m", ":", "\n", " ", " ", " ", " ", " ", " ", " ", " ", " ", " ", " ", " ", " ", " ", " ", " ", "s", "e", "c", "r", "e", "t", "K", "e", "y", "R", "e", "f", ":", "\n", " ", " ", " ", " ", " ", " ", " ", " ", " ", " ", " ", " ", " ", " ", " ", " ", " ", " ", "n", "a", "m", "e", ":", " ">>
    \o secret_name
    \o <<"\n", " ", " ", " ", " ", " ", " ", " ", " ", " ", " ", " ", " ", " ", " ", " ", " ", " ", " ", "k", "e", "y", ":", " ">>
    \o e.key
    \o <<"\n">>

\* Option::unwrap_or on an Option<String>
unwrap_or(option, default) == IF option = <<>> THEN default ELSE option[1]

\* the resources block of a request that has a resources object
ResourcesOf(r) ==
    LET cpu_req == unwrap_or(r.cpu_request, <<"1", "0", "0", "m">>)
        mem_req == unwrap_or(r.mem_request, <<"1", "2", "8", "M", "i">>)
        cpu_lim == unwrap_or(r.cpu_limit, <<"5", "0", "0", "m">>)
        mem_lim == unwrap_or(r.mem_limit, <<"5", "1", "2", "M", "i">>)
    IN  <<" ", " ", " ", " ", " ", " ", " ", " ", " ", " ", "r", "e", "s", "o", "u", "r", "c", "e", "s", ":", "\n", " ", " ", " ", " ", " ", " ", " ", " ", " ", " ", " ", " ", "r", "e", "q", "u", "e", "s", "t", "s", ":", "\n", " ", " ", " ", " ", " ", " ", " ", " ", " ", " ", " ", " ", " ", " ", "c", "p", "u", ":", " ", "\"">>
        \o cpu_req
        \o <<"\"", "\n", " ", " ", " ", " ", " ", " ", " ", " ", " ", " ", " ", " ", " ", " ", "m", "e", "m", "o", "r", "y", ":", " ", "\"">>
        \o mem_req
        \o <<"\"", "\n", " ", " ", " ", " ", " ", " ", " ", " ", " ", " ", " ", " ", "l", "i", "m", "i", "t", "s", ":", "\n", " ", " ", " ", " ", " ", " ", " ", " ", " ", " ", " ", " ", " ", " ", "c", "p", "u", ":", " ", "\"">>
        \o cpu_lim
        \o <<"\"", "\n", " ", " ", " ", " ", " ", " ", " ", " ", " ", " ", " ", " ", " ", " ", "m", "e", "m", "o", "r", "y", ":", " ", "\"">>
        \o mem_lim
        \o <<"\"", "\n">>

gen_image_deployment(req) ==
    LET name == req.name
        ns == req.namespace
        replicas == Chars(req.replicas)
        image == req.image
        secret_name == name \o secret_suffix
        ports_yaml ==
            IF req.ports = <<>> THEN <<>>
            ELSE <<" ", " ", " ", " ", " ", " ", " ", " ", " ", " ", "p", "o", "r", "t", "s", ":", "\n">>
                 \o flatten([i \in 1..Len(req.ports) |-> PortLines(req.ports[i])])
        plain_env == flatten([i \in 1..Len(req.env) |-> PlainEnv(req.env[i])])
        secret_env == flatten([i \in 1..Len(req.secret_env) |->
                          SecretEnv(req.secret_env[i], secret_name)])
        env_block == IF plain_env = <<>> /\ secret_env = <<>> THEN <<>>
                     ELSE <<" ", " ", " ", " ", " ", " ", " ", " ", " ", " ", "e", "n", "v", ":", "\n">> \o plain_env \o secret_env
        resources_block == IF req.resources # <<>> THEN ResourcesOf(req.resources[1])
                           ELSE <<>>
        pull_secrets_block ==
            IF req.image_pull_secret # <<>> /\ req.image_pull_secret[1] # <<>>
            THEN <<" ", " ", " ", " ", " ", " ", "i", "m", "a", "g", "e", "P", "u", "l", "l", "S", "e", "c", "r", "e", "t", "s", ":", "\n", " ", " ", " ", " ", " ", " ", " ", " ", "-", " ", "n", "a", "m", "e", ":", " ">>
                 \o req.image_pull_secret[1] \o <<"\n">>
            ELSE <<>>
    IN  <<"a", "p", "i", "V", "e", "r", "s", "i", "o", "n", ":", " ", "a", "p", "p", "s", "/", "v", "1", "\n", "k", "i", "n", "d", ":", " ", "D", "e", "p", "l", "o", "y", "m", "e", "n", "t", "\n", "m", "e", "t", "a", "d", "a", "t", "a", ":", "\n", " ", " ", "n", "a", "m", "e", ":", " ">>
        \o name
        \o <<"\n", " ", " ", "n", "a", "m", "e", "s", "p", "a", "c", "e", ":", " ">>
        \o ns
        \o <<"\n", " ", " ", "l", "a", "b", "e", "l", "s", ":", "\n", " ", " ", " ", " ", "a", "p", "p", ".", "k", "u", "b", "e", "r", "n", "e", "t", "e", "s", ".", "i", "o", "/", "n", "a", "m", "e", ":", " ">>
        \o name
        \o <<"\n", " ", " ", " ", " ", "a", "p", "p", ".", "k", "u", "b", "e", "r", "n", "e", "t", "e", "s", ".", "i", "o", "/", "m", "a", "n", "a", "g", "e", "d", "-", "b", "y", ":", " ", "e", "n", "d", "f", "i", "e", "l", "d", "\n", " ", " ", " ", " ", "e", "n", "d", "f", "i", "e", "l", "d", "/", "t", "y", "p", "e", ":", " ", "i", "m", "a", "g", "e", "-", "d", "e", "p", "l", "o", "y", "\n", " ", " ", " ", " ", "e", "n", "d", "f", "i", "e", "l", "d", "/", "n", "a", "m", "e", "s", "p", "a", "c", "e", ":", " ">>
        \o ns
        \o <<"\n", "s", "p", "e", "c", ":", "\n", " ", " ", "r", "e", "p", "l", "i", "c", "a", "s", ":", " ">>
        \o replicas
        \o <<"\n", " ", " ", "s", "e", "l", "e", "c", "t", "o", "r", ":", "\n", " ", " ", " ", " ", "m", "a", "t", "c", "h", "L", "a", "b", "e", "l", "s", ":", "\n", " ", " ", " ", " ", " ", " ", "a", "p", "p", ".", "k", "u", "b", "e", "r", "n", "e", "t", "e", "s", ".", "i", "o", "/", "n", "a", "m", "e", ":", " ">>
        \o name
        \o <<"\n", " ", " ", "t", "e", "m", "p", "l", "a", "t", "e", ":", "\n", " ", " ", " ", " ", "m", "e", "t", "a", "d", "a", "t", "a", ":", "\n", " ", " ", " ", " ", " ", " ", "l", "a", "b", "e", "l", "s", ":", "\n", " ", " ", " ", " ", " ", " ", " ", " ", "a", "p", "p", ".", "k", "u", "b", "e", "r", "n", "e", "t", "e", "s", ".", "i", "o", "/", "n", "a", "m", "e", ":", " ">>
        \o name
        \o <<"\n", " ", " ", " ", " ", " ", " ", " ", " ", "a", "p", "p", ".", "k", "u", "b", "e", "r", "n", "e", "t", "e", "s", ".", "i", "o", "/", "m", "a", "n", "a", "g", "e", "d", "-", "b", "y", ":", " ", "e", "n", "d", "f", "i", "e", "l", "d", "\n", " ", " ", " ", " ", "s", "p", "e", "c", ":", "\n">>
        \o pull_secrets_block
        \o <<" ", " ", " ", " ", " ", " ", "c", "o", "n", "t", "a", "i", "n", "e", "r", "s", ":", "\n", " ", " ", " ", " ", " ", " ", " ", " ", "-", " ", "n", "a", "m", "e", ":", " ">>
        \o name
        \o <<"\n", " ", " ", " ", " ", " ", " ", " ", " ", " ", " ", "i", "m", "a", "g", "e", ":", " ">>
        \o image
        \o <<"\n">>
        \o ports_yaml
        \o env_block
        \o resources_block

ServicePort(port) ==
    <<" ", " ", " ", " ", "-", " ">>
    \o (IF port.name # <<>> /\ port.name[1] # <<>>
        THEN <<" ", " ", " ", " ", " ", " ", "n", "a", "m", "e", ":", " ">> \o port.name[1] \o <<"\n", " ", " ", " ", " ">>
        ELSE <<>>)
    \o <<"p", "o", "r", "t", ":", " ">> \o Chars(port.container_port) \o <<"\n">>
    \o <<" ", " ", " ", " ", " ", " ", "t", "a", "r", "g", "e", "t", "P", "o", "r", "t", ":", " ">> \o Chars(port.container_port) \o <<"\n">>
    \o <<" ", " ", " ", " ", " ", " ", "p", "r", "o", "t", "o", "c", "o", "l", ":", " ", "T", "C", "P", "\n">>

gen_image_service(name, ns, ports, service_type) ==
    LET port_lines == flatten([i \in 1..Len(ports) |-> ServicePort(ports[i])])
    IN  <<"a", "p", "i", "V", "e", "r", "s", "i", "o", "n", ":", " ", "v", "1", "\n", "k", "i", "n", "d", ":", " ", "S", "e", "r", "v", "i", "c", "e", "\n", "m", "e", "t", "a", "d", "a", "t", "a", ":", "\n", " ", " ", "n", "a", "m", "e", ":", " ">>
        \o name
        \o <<"\n", " ", " ", "n", "a", "m", "e", "s", "p", "a", "c", "e", ":", " ">>
        \o ns
        \o <<"\n", " ", " ", "l", "a", "b", "e", "l", "s", ":", "\n", " ", " ", " ", " ", "a", "p", "p", ".", "k", "u", "b", "e", "r", "n", "e", "t", "e", "s", ".", "i", "o", "/", "n", "a", "m", "e", ":", " ">>
        \o name
        \o <<"\n", " ", " ", " ", " ", "a", "p", "p", ".", "k", "u", "b", "e", "r", "n", "e", "t", "e", "s", ".", "i", "o", "/", "m", "a", "n", "a", "g", "e", "d", "-", "b", "y", ":", " ", "e", "n", "d", "f", "i", "e", "l", "d", "\n", " ", " ", " ", " ", "e", "n", "d", "f", "i", "e", "l", "d", "/", "t", "y", "p", "e", ":", " ", "i", "m", "a", "g", "e", "-", "d", "e", "p", "l", "o", "y", "\n", " ", " ", " ", " ", "e", "n", "d", "f", "i", "e", "l", "d", "/", "n", "a", "m", "e", "s", "p", "a", "c", "e", ":", " ">>
        \o ns
        \o <<"\n", "s", "p", "e", "c", ":", "\n", " ", " ", "s", "e", "l", "e", "c", "t", "o", "r", ":", "\n", " ", " ", " ", " ", "a", "p", "p", ".", "k", "u", "b", "e", "r", "n", "e", "t", "e", "s", ".", "i", "o", "/", "n", "a", "m", "e", ":", " ">>
        \o name
        \o <<"\n", " ", " ", "t", "y", "p", "e", ":", " ">>
        \o service_type
        \o <<"\n", " ", " ", "p", "o", "r", "t", "s", ":", "\n">>
        \o port_lines

\* the requests

NoResources == <<>>

Resources(cpu_request, mem_request, cpu_limit, mem_limit) ==
    <<[cpu_request |-> cpu_request, mem_request |-> mem_request,
       cpu_limit |-> cpu_limit, mem_limit |-> mem_limit]>>

ResourceChoices ==
    {NoResources,
     Resources(<<>>, <<>>, <<>>, <<>>),
     Resources(<<<<"2", "5", "0", "m">>>>, <<>>, <<>>, <<<<"1", "G", "i">>>>),
     Resources(<<<<"1">>>>, <<<<"2", "5", "6", "M", "i">>>>, <<<<"2">>>>, <<<<"2", "G", "i">>>>)}

TokenVar == [key |-> <<"T", "O", "K", "E", "N">>, value |-> <<"a", "\"", "b">>]

ModeVar == [key |-> <<"M", "O", "D", "E">>, value |-> <<"f", "a", "s", "t">>]

HttpPort == [container_port |-> 8080, name |-> <<<<"h", "t", "t", "p">>>>]

DeployImageRequests ==
    {[op |-> "deploy_image",
      namespace |-> <<"p", "r", "o", "d">>, name |-> <<"a", "p", "i">>,
      image |-> <<"g", "h", "c", "r", ".", "i", "o", "/", "a", "c", "m", "e", "/", "a", "p", "i", ":", "1", ".", "2">>, replicas |-> 2,
      env |-> IF secret THEN <<>> ELSE <<ModeVar>>,
      secret_env |-> IF secret THEN <<TokenVar>> ELSE <<>>,
      ports |-> IF service THEN <<HttpPort>> ELSE <<>>,
      service_type |-> <<"C", "l", "u", "s", "t", "e", "r", "I", "P">>,
      resources |-> resources,
      image_pull_secret |-> IF service THEN <<>> ELSE <<<<"r", "e", "g", "c", "r", "e", "d">>>>,
      create_namespace |-> create_namespace] :
        secret \in BOOLEAN, service \in BOOLEAN, create_namespace \in BOOLEAN,
        resources \in ResourceChoices}

NoManifests == [namespace |-> <<>>, secret |-> <<>>, deployment |-> <<>>, service |-> <<>>]

NoAcc == [all_stdout |-> <<>>, all_stderr |-> <<>>, overall_success |-> TRUE]

apply_out == <<"s", "e", "r", "v", "e", "r", "s", "i", "d", "e", "-", "a", "p", "p", "l", "i", "e", "d", "\n">>

apply_err == <<"e", "r", "r", "o", "r", ":", " ", "a", "p", "p", "l", "y", " ", "f", "a", "i", "l", "e", "d", "\n">>

\* the variant in which a failed apply leaves the flag as it was
Applied_Forgiving(acc, ok) ==
    IF ok THEN [acc EXCEPT !.all_stdout = Append(@, apply_out)]
    ELSE [acc EXCEPT !.all_stderr = Append(@, apply_err)]

\* match kubectl_apply_manifest(yaml, &ns) { Ok(out) => .., Err(e) => .. }
Applied(acc, ok) ==
    IF ok THEN [acc EXCEPT !.all_stdout = Append(@, apply_out)]
    ELSE [acc EXCEPT !.all_stderr = Append(@, apply_err), !.overall_success = FALSE]

\* the manifests are built from the request
DeployImage ==
    /\ imgPc = "idle"
    /\ \E req \in DeployImageRequests :
        /\ imgReq' = req
        /\ imgManifests' =
               [namespace |-> IF req.create_namespace
                              THEN <<gen_image_namespace(req.namespace)>> ELSE <<>>,
                secret |-> IF req.secret_env # <<>>
                           THEN <<gen_image_secret(req.name, req.namespace, req.secret_env)>>
                           ELSE <<>>,
                deployment |-> gen_image_deployment(req),
                service |-> IF req.ports # <<>>
                            THEN <<gen_image_service(req.name, req.namespace, req.ports,
                                                     req.service_type)>>
                            ELSE <<>>]
    /\ imgPc' = "namespace"
    /\ imgCalls' = <<>>
    /\ imgAcc' = NoAcc
    /\ UNCHANGED <<imgResult, outsideImg>>

\* the namespace is applied when the request asks for it
ApplyNamespace ==
    /\ imgPc = "namespace"
    /\ imgReq.create_namespace
    /\ \E ok \in BOOLEAN :
        /\ imgCalls' = Append(imgCalls, [call |-> "apply", kind |-> "Namespace",
                                         yaml |-> imgManifests.namespace[1], ok |-> ok])
        /\ imgAcc' = Applied(imgAcc, ok)
        /\ imgPc' = IF imgAcc'.overall_success THEN "secret" ELSE "failed"
    /\ UNCHANGED <<imgReq, imgManifests, imgResult, outsideImg>>

\* otherwise ensure_namespace is called and its result dropped
EnsureNamespace ==
    /\ imgPc = "namespace"
    /\ ~imgReq.create_namespace
    /\ \E ok \in BOOLEAN :
        imgCalls' = Append(imgCalls, [call |-> "ensure_namespace", kind |-> "Namespace",
                                      yaml |-> <<>>, ok |-> ok])
    /\ imgPc' = "secret"
    /\ UNCHANGED <<imgReq, imgManifests, imgAcc, imgResult, outsideImg>>

DeployImageResult ==
    [kind |-> "DeployImageResult",
     success |-> imgAcc.overall_success,
     deployment_name |-> imgReq.name,
     secret_name |-> IF imgReq.secret_env # <<>> THEN <<imgReq.name \o secret_suffix>>
                     ELSE <<>>,
     service_name |-> IF imgReq.ports # <<>> THEN <<imgReq.name>> ELSE <<>>,
     namespace |-> imgReq.namespace,
     stdout |-> join(imgAcc.all_stdout, <<"\n">>),
     stderr |-> join(imgAcc.all_stderr, <<"\n">>),
     error |-> IF imgAcc.overall_success THEN <<>>
               ELSE <<join(imgAcc.all_stderr, <<"\n">>)>>,
     manifests |-> imgManifests]

\* if !overall_success { return .. } after the namespace
NamespaceFailed ==
    /\ imgPc = "failed"
    /\ imgResult' = DeployImageResult
    /\ imgPc' = "returned"
    /\ UNCHANGED <<imgReq, imgManifests, imgCalls, imgAcc, outsideImg>>

ApplySecret ==
    /\ imgPc = "secret"
    /\ IF imgManifests.secret # <<>>
       THEN \E ok \in BOOLEAN :
               /\ imgCalls' = Append(imgCalls, [call |-> "apply", kind |-> "Secret",
                                                yaml |-> imgManifests.secret[1], ok |-> ok])
               /\ imgAcc' = Applied(imgAcc, ok)
       ELSE UNCHANGED <<imgCalls, imgAcc>>
    /\ imgPc' = "deployment"
    /\ UNCHANGED <<imgReq, imgManifests, imgResult, outsideImg>>

ApplyDeployment ==
    /\ imgPc = "deployment"
    /\ \E ok \in BOOLEAN :
        /\ imgCalls' = Append(imgCalls, [call |-> "apply", kind |-> "Deployment",
                                         yaml |-> imgManifests.deployment, ok |-> ok])
        /\ imgAcc' = Applied(imgAcc, ok)
    /\ imgPc' = "service"
    /\ UNCHANGED <<imgReq, imgManifests, imgResult, outsideImg>>

\* the service is applied if there is one, and the result is built
ApplyService ==
    /\ imgPc = "service"
    /\ IF imgManifests.service # <<>>
       THEN \E ok \in BOOLEAN :
               /\ imgCalls' = Append(imgCalls, [call |-> "apply", kind |-> "Service",
                                                yaml |-> imgManifests.service[1], ok |-> ok])
               /\ imgAcc' = Applied(imgAcc, ok)
       ELSE UNCHANGED <<imgCalls, imgAcc>>
    /\ imgPc' = "done"
    /\ UNCHANGED <<imgReq, imgManifests, imgResult, outsideImg>>

\* the result after the last apply
DeployImageDone ==
    /\ imgPc = "done"
    /\ imgResult' = DeployImageResult
    /\ imgPc' = "returned"
    /\ UNCHANGED <<imgReq, imgManifests, imgCalls, imgAcc, outsideImg>>

\* the caller takes the result
DeployImageReturn ==
    /\ imgPc = "returned"
    /\ imgPc' = "idle"
    /\ imgReq' = [op |-> "none"]
    /\ imgManifests' = NoManifests
    /\ imgCalls' = <<>>
    /\ imgAcc' = NoAcc
    /\ imgResult' = [kind |-> "none"]
    /\ UNCHANGED outsideImg

-----------------------------------------------------------------------------
(* The caller *)

\* the caller takes the returned value; the next command starts afresh
Return ==
    /\ pc = "done"
    /\ pc' = "idle"
    /\ inv' = NoInv
    /\ issued' = <<>>
    /\ commands_run' = <<>>
    /\ warnings' = <<>>
    /\ helmErr' = ""
    /\ result' = NoResult
    /\ lastRemove' = EndedRemove
    /\ UNCHANGED <<nsExists, installed, renderedExists, diskFiles>>
    /\ UNCHANGED outsideOrch

-----------------------------------------------------------------------------
(* The world outside the running command *)

\* between two commands the cluster and the unit's rendered/ directory are
\* changed by others (operators, other tools)
EnvChange ==
    /\ Idle
    /\ nsExists' \in BOOLEAN
    /\ installed' \in BOOLEAN
    /\ renderedExists' \in BOOLEAN
    /\ <<nsExists', installed', renderedExists'>> # <<nsExists, installed, renderedExists>>
    /\ UNCHANGED <<diskFiles, pc, inv, issued, commands_run, warnings, helmErr,
                   result, lastRemove>>
    /\ UNCHANGED outsideOrch

-----------------------------------------------------------------------------

InitOrchIdle ==
    /\ nsExists = FALSE
    /\ installed = FALSE
    /\ renderedExists = FALSE
    /\ diskFiles = UnitFiles
    /\ pc = "idle"
    /\ inv = NoInv
    /\ issued = <<>>
    /\ commands_run = <<>>
    /\ warnings = <<>>
    /\ helmErr = ""
    /\ result = NoResult
    /\ lastRemove = NoResult

InitOrch ==
    /\ nsExists \in BOOLEAN
    /\ installed = FALSE
    /\ renderedExists = FALSE
    /\ diskFiles = UnitFiles
    /\ pc = "idle"
    /\ inv = NoInv
    /\ issued = <<>>
    /\ commands_run = <<>>
    /\ warnings = <<>>
    /\ helmErr = ""
    /\ result = NoResult
    /\ lastRemove = NoResult

InitScanIdle ==
    /\ scanPc = "idle"
    /\ nodes = <<>>
    /\ scanResult = <<>>

InitGenIdle ==
    /\ genPc = "idle"
    /\ genInput = NoInput
    /\ unitDir = {}
    /\ genResult = NoResult

InitPatchIdle ==
    /\ patchPc = "idle"
    /\ patchCall = NoCall
    /\ patchPrev = NoCall

\* the parts of the program other than the orchestrator, at rest
InitSplitIdle ==
    /\ splitPc = "idle"
    /\ raw = <<>>
    /\ manifests = <<>>

InitRenderIdle ==
    /\ renderPc = [r \in Renders |-> "idle"]
    /\ renderCall = [r \in Renders |-> NoRender]
    /\ listing = [r \in Renders |-> {}]
    /\ pending = [r \in Renders |-> <<>>]
    /\ renderResult = [r \in Renders |-> NoRenderResult]
    /\ sentinelBefore = [r \in Renders |-> FALSE]

InitWatch ==
    /\ watchPc = "idle"
    /\ watchCall = ""
    /\ watcher = 0
    /\ state = 0
    /\ watching = {}
    /\ watchersMade = 0
    /\ debounce = [w \in 1..MaxWatchers |-> NoMap]
    /\ clock = 0
    /\ delivered = 0
    /\ lastEvent = NoEvent
    /\ emitted = <<>>
    /\ watchResult = NoText

\* the parts added after the renders, before their first call
InitClass ==
    /\ classPc = "idle"
    /\ classInput = [op |-> "none"]
    /\ classNode = <<>>

InitWalk ==
    /\ walkPc = "idle"
    /\ walkInput = [op |-> "none"]
    /\ walk = [nodes |-> <<>>, errors |-> <<>>, visited |-> <<>>, units |-> <<>>]

InitDel ==
    /\ delPc = "idle"
    /\ delInput = [op |-> "none"]
    /\ delDisk = ProjectDisk
    /\ delResult = NoDeleteResult

InitImg ==
    /\ imgPc = "idle"
    /\ imgReq = [op |-> "none"]
    /\ imgManifests = NoManifests
    /\ imgCalls = <<>>
    /\ imgAcc = NoAcc
    /\ imgResult = [kind |-> "none"]

InitLater == InitWatch /\ InitClass /\ InitWalk /\ InitDel /\ InitImg

InitRest ==
    /\ InitScanIdle /\ InitGenIdle /\ InitPatchIdle /\ patchFile = DocA
    /\ InitSplitIdle
    /\ InitRenderIdle /\ renderedDir = NoDir /\ diskFails = FALSE
    /\ InitLater

Init == InitOrch /\ InitRest

Step ==
    \/ EnsureNamespaceGet
    \/ EnsureNamespaceCreate
    \/ RepoAdd
    \/ RepoUpdate
    \/ DependencyUpdate
    \/ Template
    \/ Install
    \/ Apply
    \/ RemoveResource
    \/ DiffHelm
    \/ DiffRendered
    \/ DiffRaw

Next ==
    \/ DeployResourceCall
    \/ RemoveResourceCall
    \/ DiffResourceCall
    \/ EnsureNamespaceGet
    \/ EnsureNamespaceCreate
    \/ RepoAdd
    \/ RepoUpdate
    \/ DependencyUpdate
    \/ Template
    \/ Install
    \/ Apply
    \/ RemoveResource
    \/ DiffHelm
    \/ DiffRendered
    \/ DiffRaw
    \/ Return
    \/ EnvChange

Spec == Init /\ [][Next]_vars

FairSpec == Spec /\ WF_vars(Step)

InitScan == InitOrchIdle /\ InitRest

NextScan == ScanYamlFiles \/ ScanReturn

SpecScan == InitScan /\ [][NextScan]_vars

NextGen == GenerateField \/ GenerateInfra \/ GenReturn

SpecGen == InitScan /\ [][NextGen]_vars

InitPatch ==
    /\ InitOrchIdle /\ InitScanIdle /\ InitGenIdle /\ InitPatchIdle
    /\ InitSplitIdle
    /\ InitRenderIdle /\ renderedDir = NoDir /\ diskFails = FALSE
    /\ InitLater
    /\ patchFile \in ManifestFiles

NextPatch == ApplyReplicas \/ PatchReturn

SpecPatch == InitPatch /\ [][NextPatch]_vars

NextSplit == SplitRenderedManifests \/ SplitReturn

SpecSplit == InitScan /\ [][NextSplit]_vars

InitRender ==
    /\ InitOrchIdle /\ InitScanIdle /\ InitGenIdle /\ InitPatchIdle /\ patchFile = DocA
    /\ InitSplitIdle
    /\ InitRenderIdle /\ renderedDir \in RenderedDirs /\ diskFails \in BOOLEAN
    /\ InitLater

\* renders of one unit, the caller keeping one in flight
NextRender ==
    \/ \E r \in Renders : InvokeAlone(r)
    \/ \E r \in Renders : RunHelm(r)
    \/ \E r \in Renders : OpenDir(r)
    \/ \E r \in Renders : RemoveFile(r)
    \/ \E r \in Renders : WriteFile(r)
    \/ \E r \in Renders : RenderReturn(r)

SpecRender == InitRender /\ [][NextRender]_vars

\* renders of one unit invoked whenever the caller likes
NextRenderAnyTime ==
    \/ \E r \in Renders : Invoke(r)
    \/ \E r \in Renders : RunHelm(r)
    \/ \E r \in Renders : OpenDir(r)
    \/ \E r \in Renders : RemoveFile(r)
    \/ \E r \in Renders : WriteFile(r)
    \/ \E r \in Renders : RenderReturn(r)

\* there the disk is one whose calls succeed
InitRenderAnyTime == InitRender /\ ~diskFails

SpecRenderAnyTime == InitRenderAnyTime /\ [][NextRenderAnyTime]_vars

-----------------------------------------------------------------------------
(* Properties of the orchestrator *)

Starts(args, prefix) ==
    /\ Len(args) >= Len(prefix)
    /\ \A i \in 1..Len(prefix) : args[i] = prefix[i]

\* positions in issued of the calls of tool whose arguments start with prefix
Calls(tool, prefix) ==
    {i \in 1..Len(issued) : issued[i].tool = tool /\ Starts(issued[i].args, prefix)}

\* positions in a command log of the entries that start with prefix
Entries(log, prefix) == {i \in 1..Len(log) : Starts(log[i], prefix)}

Deploying == inv.op = "deploy"

\* the caller gave a repository name and a repository URL
BothRepoArgs == inv.helm_repo_name # None /\ inv.helm_repo_url # None

DeployDone == pc = "done" /\ inv.op = "deploy"

DepCalls == Calls("helm", <<"dependency", "update">>)

DepFailed == \E i \in DepCalls : ~issued[i].out.success

\* C1: once helm dependency update has failed in a chart deploy, the command
\* has returned: success is false, stderr carries the dependency-update
\* failure, commands_run ends with the dependency-update entry, and neither
\* helm template nor helm upgrade --install was spawned or logged.
C1_DependencyFailureIsFatal ==
    (Deploying /\ inv.source = "helm" /\ DepFailed) =>
        /\ pc = "done"
        /\ result.success = FALSE
        /\ \E i \in DepCalls :
              result.stderr = "helm dependency update failed: " \o issued[i].out.stderr
        /\ result.commands_run # <<>>
        /\ result.commands_run[Len(result.commands_run)] = DepEntry
        /\ Calls("helm", <<"template">>) = {}
        /\ Calls("helm", <<"upgrade">>) = {}
        /\ Entries(result.commands_run, <<"helm", "template">>) = {}
        /\ Entries(result.commands_run, <<"helm", "upgrade">>) = {}

C1_Witness ==
    /\ DeployDone /\ inv.source = "helm" /\ DepFailed /\ BothRepoArgs
    /\ Entries(result.commands_run, NsEntry) # {}

CreateCalls == Calls("kubectl", <<"create", "namespace">>)

CreateFailed == \E i \in CreateCalls : ~issued[i].out.success

\* C2: for either origin, once kubectl create namespace has failed the deploy
\* has returned with success=false, the creation error as stderr and the
\* command log accumulated so far, and no helm call and no kubectl apply
\* was spawned.
C2_NamespaceFailureIsFatal ==
    (Deploying /\ CreateFailed) =>
        /\ pc = "done"
        /\ result.success = FALSE
        /\ \E i \in CreateCalls : result.stderr = issued[i].out.stderr
        /\ result.commands_run = commands_run
        /\ \A i \in 1..Len(issued) :
              issued[i].tool # "helm" /\ ~Starts(issued[i].args, <<"apply">>)

C2_Witness ==
    /\ DeployDone /\ CreateFailed /\ inv.source = "helm"
    /\ ~issued[1].world.ns
    /\ Len(issued) = 2

RECURSIVE Resolve(_, _)
\* a command line with the word "." replaced by the directory it runs in
Resolve(line, cwd) ==
    IF line = <<>> THEN <<>>
    ELSE <<IF Head(line) = "." THEN cwd ELSE Head(line)>> \o Resolve(Tail(line), cwd)

RECURSIVE SplitOr(_, _)
\* the command lines of one log entry: "a || b" names a and b
SplitOr(line, cur) ==
    IF line = <<>> THEN <<cur>>
    ELSE IF Head(line) = "||" THEN <<cur>> \o SplitOr(Tail(line), <<>>)
    ELSE SplitOr(Tail(line), Append(cur, Head(line)))

RECURSIVE LoggedLines(_)
\* every command line a command log names, in order
LoggedLines(log) ==
    IF log = <<>> THEN <<>>
    ELSE SplitOr(Resolve(Head(log), helm_dir), <<>>) \o LoggedLines(Tail(log))

RECURSIVE IsSubseq(_, _)
\* a occurs in b in the same order
IsSubseq(a, b) ==
    IF a = <<>> THEN TRUE
    ELSE IF b = <<>> THEN FALSE
    ELSE IF Head(a) = Head(b) THEN IsSubseq(Tail(a), Tail(b))
    ELSE IsSubseq(a, Tail(b))

SpawnedLines ==
    [i \in 1..Len(issued) |->
        Resolve(<<issued[i].tool>> \o issued[i].args, issued[i].cwd)]

\* C3: when deploy_resource returns, every subprocess it spawned is named by
\* an entry of the returned commands_run, in the order of spawning.
C3_EverySpawnLogged ==
    DeployDone => IsSubseq(SpawnedLines, LoggedLines(result.commands_run))

StepRank(c) ==
    IF c.tool = "kubectl" /\ IsGetNs(c.args) THEN 1
    ELSE IF c.tool = "kubectl" /\ IsCreateNs(c.args) THEN 2
    ELSE IF c.tool = "helm" /\ Starts(c.args, <<"repo", "add">>) THEN 3
    ELSE IF c.tool = "helm" /\ Starts(c.args, <<"repo", "update">>) THEN 4
    ELSE IF c.tool = "helm" /\ Starts(c.args, <<"dependency", "update">>) THEN 5
    ELSE IF c.tool = "helm" /\ Starts(c.args, <<"template">>) THEN 6
    ELSE IF c.tool = "helm" /\ Starts(c.args, <<"upgrade", "--install">>) THEN 7
    ELSE 0

ChartStepsInOrder ==
    /\ \A i \in 1..Len(issued) : StepRank(issued[i]) > 0
    /\ \A i, j \in 1..Len(issued) :
          i < j => StepRank(issued[i]) < StepRank(issued[j])
    /\ (Calls("helm", <<"repo">>) # {}) => BothRepoArgs
    /\ (DepCalls # {} /\ BothRepoArgs) =>
          /\ Calls("helm", <<"repo", "add">>) # {}
          /\ Calls("helm", <<"repo", "update">>) # {}
    /\ (Calls("helm", <<"upgrade">>) # {}) =>
          \E i \in DepCalls : issued[i].out.success

TemplateCalls == Calls("helm", <<"template">>)

TemplateFailed == \E i \in TemplateCalls : ~issued[i].out.success

\* C5: after a failed helm template in a chart deploy a warning has been
\* written and the deploy goes on: it returns only after exactly one
\* upgrade --install, with that call's success flag as its own.
C5_RenderFailureNotFatal ==
    (Deploying /\ TemplateFailed) =>
        /\ \E i \in TemplateCalls :
              warnings = <<"helm template warning: " \o issued[i].out.stderr>>
        /\ pc \in {"install", "done"}
        /\ pc = "done" =>
              /\ Cardinality(Calls("helm", <<"upgrade", "--install">>)) = 1
              /\ \A i \in Calls("helm", <<"upgrade", "--install">>) :
                    result.success = issued[i].out.success

C5_Witness ==
    /\ DeployDone /\ TemplateFailed
    /\ result.success

DiffDone == pc = "done" /\ inv.op = "diff"

\* C6: diff_resource reports has_changes exactly when the diff tool whose
\* answer it returns printed something, whatever its exit status.
C6_HasChangesIffOutput ==
    DiffDone => (result.has_changes <=> (issued[Len(issued)].out.stdout # ""))

RenderedDiffCalls == Calls("kubectl", <<"diff", "-f", rendered_dir>>)

\* C7: a chart diff spawns helm diff first; it goes on to kubectl diff of
\* rendered/ exactly when helm diff printed nothing and did not succeed and
\* rendered/ exists; when helm diff printed nothing, did not succeed and
\* rendered/ is missing, nothing else is spawned and the result is
\* has_changes=false with the error naming the helm diff failure and the
\* missing directory.
C7_DiffFallback ==
    (DiffDone /\ inv.source = "helm") =>
        LET h == issued[1].out
            failed == ~h.success /\ h.stdout = ""
        IN  /\ issued[1].tool = "helm" /\ Starts(issued[1].args, <<"diff", "upgrade">>)
            /\ (RenderedDiffCalls # {}) <=> (failed /\ renderedExists)
            /\ Len(issued) = IF failed /\ renderedExists THEN 2 ELSE 1
            /\ (failed /\ ~renderedExists) =>
                  /\ result.has_changes = FALSE
                  /\ result.diff = ""
                  /\ result.error =
                        "helm diff failed and no rendered/ dir: " \o h.stderr

C7_Witness ==
    /\ DiffDone /\ inv.source = "helm"
    /\ ~issued[1].out.success /\ issued[1].out.stdout = ""
    /\ ~renderedExists
    /\ result.error = "helm diff failed and no rendered/ dir: err"

SameUnit(r) == r.source = inv.source /\ r.helm_release = inv.helm_release

\* C8: remove_resource spawns exactly one subprocess, helm uninstall with
\* --ignore-not-found for a chart unit and kubectl delete --recursive
\* --ignore-not-found=true otherwise, never a namespace call; it changes no
\* file of the unit; run again on the same unit it spawns the same command,
\* and the tool never refuses because the unit is absent.
C8_RemoveOnce ==
    [][pc = "remove" =>
        /\ Len(issued') = 1
        /\ IF inv.source = "helm"
           THEN /\ issued'[1].tool = "helm"
                /\ Starts(issued'[1].args, <<"uninstall">>)
                /\ HasWord(issued'[1].args, "--ignore-not-found")
           ELSE /\ issued'[1].tool = "kubectl"
                /\ Starts(issued'[1].args, <<"delete", "-f", resource_dir>>)
                /\ HasWord(issued'[1].args, "--recursive")
                /\ HasWord(issued'[1].args, "--ignore-not-found=true")
        /\ diskFiles' = diskFiles
        /\ renderedExists' = renderedExists
        /\ issued'[1].out.cause # "notfound"
        /\ (lastRemove # NoResult /\ SameUnit(lastRemove)) =>
              lastRemove.cmds = CommandLines(issued')
    ]_vars

C8_Witness ==
    /\ pc = "done" /\ inv.op = "remove" /\ inv.source = "helm"
    /\ lastRemove # NoResult /\ SameUnit(lastRemove) /\ lastRemove.success
    /\ ~issued[1].world.unit
    /\ result.success

-----------------------------------------------------------------------------
(* Properties of the scan *)

SameWorkload(a, b) == a.label = b.label /\ a.namespace = b.namespace

\* C9: when the scanned nodes hold a release node and a raw workload node
\* with the same label and namespace, the result holds exactly one node with
\* that label and namespace, and it is the release node.
C9_ReleaseAbsorbsWorkloads ==
    \A i, j \in 1..Len(nodes) :
        (nodes[i].source = "helm" /\ nodes[j].source = "raw"
           /\ nodes[j].kind \in workload_kinds /\ SameWorkload(nodes[i], nodes[j])) =>
            LET same == {k \in 1..Len(scanResult) : SameWorkload(scanResult[k], nodes[i])}
            IN  /\ Cardinality(same) = 1
                /\ \A k \in same : scanResult[k].source = "helm"

\* C10: the node identifiers of a returned ScanResult are pairwise distinct,
\* also when scanned nodes carried the same identifier before the pass.
C10_IdsDistinct ==
    scanPc = "returned" =>
    \A i, j \in 1..Len(scanResult) :
        i # j => scanResult[i].id # scanResult[j].id

C10_Witness ==
    /\ scanPc = "returned"
    /\ Len(scanResult) = 3
    /\ \E i, j \in 1..Len(nodes) :
          /\ i < j
          /\ nodes[i].id = nodes[j].id
          /\ DedupKey(nodes[i]) # DedupKey(nodes[j])

\* the priorities as the claim lists them
ClaimedPriority(node) ==
    IF node.source = "helm" THEN 0
    ELSE CASE node.kind = "StatefulSet" -> 1
           [] node.kind = "Deployment" -> 2
           [] node.kind = "DaemonSet" -> 3
           [] node.kind = "ReplicaSet" -> 4
           [] node.kind = "Job" -> 5
           [] node.kind = "CronJob" -> 6
           [] node.kind = "Pod" -> 7
           [] OTHER -> 8

\* positions of the scanned nodes that carry key k
KeyPositions(k) == {i \in 1..Len(nodes) : DedupKey(nodes[i]) = k}

Least(S) == CHOOSE i \in S : \A j \in S : i <= j

\* the earliest scanned node among those of least priority under key k
Survivor(k) ==
    Least({i \in KeyPositions(k) :
             \A j \in KeyPositions(k) :
                 ClaimedPriority(nodes[i]) <= ClaimedPriority(nodes[j])})

\* the place of key k among the keys in order of first occurrence
KeyRank(k) ==
    Cardinality({DedupKey(nodes[j]) : j \in 1..Least(KeyPositions(k))})

ScannedKeys == {DedupKey(nodes[i]) : i \in 1..Len(nodes)}

\* C11: after the deduplication pass the result holds one node per key; the
\* node of a key is, whole (but for its rewritten id), the earliest scanned
\* node among those of least priority under that key (release 0, StatefulSet
\* 1, Deployment 2, DaemonSet 3, ReplicaSet 4, Job 5, CronJob 6, Pod 7, other
\* 8), and it stands where the key first occurred.
C11_SurvivorPerKey ==
    /\ \A k \in workload_kinds \cup {"HelmRelease", "Service"} :
          /\ priority(k, "raw") = ClaimedPriority([kind |-> k, source |-> "raw"])
          /\ priority(k, "helm") = 0
    /\ scanPc = "returned" =>
          /\ Len(scanResult) = Cardinality(ScannedKeys)
          /\ \A k \in ScannedKeys :
                [scanResult[KeyRank(k)] EXCEPT !.id = nodes[Survivor(k)].id]
                    = nodes[Survivor(k)]

\* a Pod, then two Deployments from different files, all under one key
C11_Witness ==
    /\ scanPc = "returned"
    /\ Len(nodes) = 3
    /\ DedupKey(nodes[1]) = DedupKey(nodes[2])
    /\ DedupKey(nodes[2]) = DedupKey(nodes[3])
    /\ nodes[1].kind = "Pod"
    /\ nodes[2].kind = "Deployment"
    /\ nodes[3].kind = "Deployment"
    /\ nodes[2] # nodes[3]
    /\ Len(scanResult) = 1
    /\ scanResult[1].file_path = nodes[2].file_path

-----------------------------------------------------------------------------
(* Properties of the generators *)

FieldReturned == genPc = "returned" /\ genInput.op = "field"

InfraReturned == genPc = "returned" /\ genInput.op = "infra"

FileNames == {f.name : f \in unitDir}

\* the keys of EnvKeys that hold PASSWORD, SECRET, KEY, TOKEN or PASS in some
\* case: DB_PASSWORD, api_token, monkey
ClaimedSensitive ==
    {<<"D", "B", "_", "P", "A", "S", "S", "W", "O", "R", "D">>,
     <<"a", "p", "i", "_", "t", "o", "k", "e", "n">>,
     <<"m", "o", "n", "k", "e", "y">>}

\* the images of Images whose repository segment holds a stateful keyword:
\* postgres:16, Bitnami/Redis
ClaimedStateful ==
    {<<"p", "o", "s", "t", "g", "r", "e", "s", ":", "1", "6">>,
     <<"B", "i", "t", "n", "a", "m", "i", "/", "R", "e", "d", "i", "s">>}

\* the env block the claim describes: sensitive entries by reference to the
\* unit's secret, the others with their values
ClaimedEnvBlock(cfg) ==
    EnvBlock([i \in 1..Len(cfg.env) |->
        IF cfg.env[i].key \in ClaimedSensitive
        THEN SecretRefEntry(cfg.env[i], cfg.id \o "-secret")
        ELSE LiteralEntry(cfg.env[i])])

\* C12: in the workload manifest generate_field writes, Deployment or
\* StatefulSet, every env entry with a sensitive key is a by-key reference to
\* the generated secret and never carries its value; the other entries carry
\* their values.
C12_SensitiveByReference ==
    FieldReturned =>
        \A f \in unitDir :
            f.content.kind \in {"Deployment", "StatefulSet"} =>
                f.content.env_block = ClaimedEnvBlock(genInput.config)

C14_MissingConfigIsError ==
    (/\ InfraReturned
     /\ \/ genInput.config.source = "helm" /\ genInput.config.helm = <<>>
        \/ genInput.config.source = "raw" /\ genInput.config.raw_yaml_path = None)
      => genResult.error # None

-----------------------------------------------------------------------------
(* Properties of the replica patch *)

PatchReturned == patchPc = "returned"

\* C15: when a patch_replicas_in_file run succeeded, the next run with the
\* same label and value (and no read or write failure) succeeds and leaves
\* the file byte-identical to what the first run left.
C15_PatchIdempotent ==
    [][(/\ patchPc = "idle" /\ patchPc' = "returned"
        /\ patchPrev.ok
        /\ patchCall'.label = patchPrev.label
        /\ patchCall'.replicas = patchPrev.replicas
        /\ patchCall'.failing = None)
         => (patchCall'.ok /\ patchFile' = patchFile)]_vars

\* the last position of the line that holds position i of text
LineEnd(text, i) ==
    CHOOSE j \in i..Len(text) :
        /\ \A k \in i..j : text[k] # "\n"
        /\ j = Len(text) \/ text[j + 1] = "\n"

\* position i of text is where a line's content starts after its indentation
AfterIndent(text, i) ==
    \E h \in 1..i :
        /\ h = 1 \/ text[h - 1] = "\n"
        /\ \A k \in h..(i - 1) : text[k] \in {" ", "\t"}

\* C16: a successful patch changes one replicas line only, from its
\* indentation on, into "replicas: <value>"; all bytes before and after that
\* line, the separators and the end of the file included, stay as they were.
C16_OnlyReplicasLine ==
    (PatchReturned /\ patchCall.ok) =>
        \E i \in Matches(patchCall.before, str_replicas) :
            /\ AfterIndent(patchCall.before, i)
            /\ patchFile =
                  SubSeq(patchCall.before, 1, i - 1)
                    \o str_replicas \o <<" ">> \o Chars(patchCall.replicas)
                    \o SubSeq(patchCall.before, LineEnd(patchCall.before, i) + 1,
                              Len(patchCall.before))

\* the documents of DocPalette that carry the label and a parsable replicas
\* line: DocA for a, DocB for b
ClaimedMatches == {<<DocA, <<"a">>>>, <<DocB, <<"b">>>>}

PaletteAgrees ==
    \A d \in DocPalette, l \in PatchLabels :
        DocMatches(d, l) <=> <<d, l>> \in ClaimedMatches

\* no document of the file as it was carries the label and a parsable
\* replicas line
NoDocMatches ==
    LET docs == split(patchCall.before, str_separator)
    IN  \A i \in 1..Len(docs) : ~DocMatches(docs[i], patchCall.label)

\* C17: when the file can be read and none of its documents has both the
\* label as metadata name and a parsable replicas line, apply_replicas
\* returns the error naming the label and the file, the file keeps its
\* content, and no kubectl apply is issued.
C17_NoMatchFails ==
    /\ PaletteAgrees
    /\ (PatchReturned /\ patchCall.failing # "read" /\ NoDocMatches) =>
          /\ ~patchCall.result.ok
          /\ patchCall.result.val =
                "'" \o Str(patchCall.label) \o "' with replicas not found in "
                    \o file_path
          /\ patchFile = patchCall.before
          /\ patchCall.issued = <<>>

\* label a on a file whose document named a has no parsable replicas line
\* and whose other document, named b, has one
C17_Witness ==
    /\ PatchReturned
    /\ patchCall.label = <<"a">>
    /\ patchCall.failing = None
    /\ patchCall.before = DocTemplated \o <<"\n", "-", "-", "-", "\n">> \o DocB \o <<"\n">>
    /\ ~patchCall.result.ok
    /\ patchFile = patchCall.before

-----------------------------------------------------------------------------
(* Properties of the manifest splitter *)

\* the documents of RenderedDocs that are more than comments
SurvivingDocs ==
    {RenderedNamespace, RenderedServiceWeb, RenderedServiceApi, RenderedDeployment,
     RenderedWidget}

\* kind, rank in the precedence table and unprefixed filename of each
ClaimedEntry(doc) ==
    CASE doc = RenderedNamespace ->
           [kind |-> "Namespace", rank |-> 0, file |-> <<"n", "a", "m", "e", "s", "p", "a", "c", "e", "-", "p", "r", "o", "d", ".", "y", "a", "m", "l">>]
      [] doc = RenderedServiceWeb ->
           [kind |-> "Service", rank |-> 9, file |-> <<"s", "e", "r", "v", "i", "c", "e", "-", "w", "e", "b", ".", "y", "a", "m", "l">>]
      [] doc = RenderedServiceApi ->
           [kind |-> "Service", rank |-> 9, file |-> <<"s", "e", "r", "v", "i", "c", "e", "-", "a", "p", "i", ".", "y", "a", "m", "l">>]
      [] doc = RenderedDeployment ->
           [kind |-> "Deployment", rank |-> 10,
            file |-> <<"d", "e", "p", "l", "o", "y", "m", "e", "n", "t", "-", "a", "p", "i", "-", "v", "1", ".", "y", "a", "m", "l">>]
      [] doc = RenderedWidget ->
           [kind |-> "Widget", rank |-> 50, file |-> <<"w", "i", "d", "g", "e", "t", "-", "r", "e", "s", "o", "u", "r", "c", "e", ".", "y", "a", "m", "l">>]

\* the rendered document returned at position i
DocAt(i) == CHOOSE d \in SurvivingDocs : manifests[i].content = d \o <<"\n">>

\* the last two decimal digits of i
TwoDigits(i) == <<Digits[((i \div 10) % 10) + 1], Digits[(i % 10) + 1]>>

\* the surviving documents are returned, each once per occurrence in the
\* text, ordered by (rank, unprefixed filename), a Namespace before every
\* Service
OrderedByRankAndFile ==
    LET idx == 1..Len(manifests)
    IN  /\ \A i \in idx :
              \E d \in SurvivingDocs : manifests[i].content = d \o <<"\n">>
        /\ \A d \in SurvivingDocs :
              Cardinality({i \in idx : DocAt(i) = d}) = Cardinality(Matches(raw, d))
        /\ \A i, j \in idx :
              i < j =>
                LET a == ClaimedEntry(DocAt(i))
                    b == ClaimedEntry(DocAt(j))
                IN  \/ a.rank < b.rank
                    \/ a.rank = b.rank /\ ~LexLess(b.file, a.file)
        /\ \A i, j \in idx :
              (ClaimedEntry(DocAt(i)).kind = "Namespace"
                 /\ ClaimedEntry(DocAt(j)).kind = "Service") => i < j

\* C18: whatever the order of the documents in the rendered text, the
\* surviving documents are returned ordered by (kind rank, unprefixed
\* filename), ranks never decreasing, the i-th filename prefixed with the
\* two-digit index counted from 00; a Namespace comes before every Service.
C18_RenderOrder ==
    splitPc = "returned" =>
        /\ OrderedByRankAndFile
        /\ \A i \in 1..Len(manifests) :
              manifests[i].filename
                  = TwoDigits(i - 1) \o <<"-">> \o ClaimedEntry(DocAt(i)).file

NextWatch ==
    \/ WatchProject
    \/ CreateWatcher
    \/ RegisterWatch
    \/ StoreWatcher
    \/ WatchReturn
    \/ UnwatchProject
    \/ Deliver

SpecWatch == InitScan /\ [][NextWatch]_vars

NextClass == TryParseHelmNode \/ ParseYamlDoc \/ ClassReturn

SpecClass == InitScan /\ [][NextClass]_vars

NextWalk == ScanDir \/ WalkReturn

SpecWalk == InitScan /\ [][NextWalk]_vars

NextDel == DeleteFieldFiles \/ DeleteReturn

SpecDel == InitScan /\ [][NextDel]_vars

NextImg ==
    \/ DeployImage
    \/ ApplyNamespace
    \/ EnsureNamespace
    \/ NamespaceFailed
    \/ ApplySecret
    \/ ApplyDeployment
    \/ ApplyService
    \/ DeployImageDone
    \/ DeployImageReturn

SpecImg == InitScan /\ [][NextImg]_vars

\* Properties of the renders

\* a render has run to its end: the text was printed, rendered/ cleared, and
\* every manifest written without a failure
RenderedAll(r) ==
    /\ renderPc[r] = "returned"
    /\ renderResult[r].rendered
    /\ renderResult[r].warnings = <<>>

\* the files of the newly split set
NewSet(r) == {renderCall[r].manifests[i] : i \in 1..Len(renderCall[r].manifests)}

\* C19: after a render with every write succeeding, rendered/ holds exactly
\* .gitkeep, if it was there before, and the files of the newly split set: no
\* file of an earlier render outside the new set survives, and .gitkeep stays.
C19_RenderedExactly ==
    \A r \in Renders :
        RenderedAll(r) =>
            renderedDir.files = (IF sentinelBefore[r] THEN {Gitkeep} ELSE {}) \cup NewSet(r)

\* the operation has made a call of helm and has another to make
BetweenCalls(r) ==
    LET deploy == renderCall[r].command = "deploy_resource"
    IN  \/ renderPc[r] \in {"template", "install"}
        \/ renderPc[r] = "dependency" /\ ~deploy
        \/ renderPc[r] \in {"dir", "clear", "write"} /\ deploy

NoInterleaving ==
    \A r \in Renders, q \in Renders : r # q => ~(BetweenCalls(r) /\ BetweenCalls(q))

\* once the renders have all run to their end, rendered/ holds the set of one
NoMixture ==
    (\A r \in Renders : RenderedAll(r)) =>
        \E r \in Renders : renderedDir.files \ {Gitkeep} = NewSet(r)

ClaimedWatched(path) ==
    /\ \/ ends_with(path, <<".", "y", "a", "m", "l">>)
       \/ ends_with(path, <<".", "y", "m", "l">>)
    /\ \E cs \in {split(path, <<"/">>)} :
          \A i \in 1..Len(cs) : cs[i] \notin {<<"r", "e", "n", "d", "e", "r", "e", "d">>, <<"c", "h", "a", "r", "t", "s">>, <<".", "g", "i", "t">>}

EmittedApart ==
    \A i \in 1..Len(emitted), j \in 1..Len(emitted) :
        (i < j /\ emitted[i].watcher = emitted[j].watcher
               /\ emitted[i].path = emitted[j].path)
            => emitted[j].at - emitted[i].at >= 300

\* every watched path of the event delivered last has an emission by that
\* watcher less than the gap before the event's arrival, or at it: the event
\* was emitted, or collapsed into an emission that recent
ArrivalEmitted ==
    lastEvent.ok =>
        \A k \in 1..Len(lastEvent.paths) :
            ClaimedWatched(lastEvent.paths[k]) =>
                \E i \in 1..Len(emitted) :
                    /\ emitted[i].watcher = lastEvent.watcher
                    /\ emitted[i].path = lastEvent.paths[k]
                    /\ emitted[i].at <= lastEvent.at
                    /\ lastEvent.at - emitted[i].at < 300

\* C21: within one watcher, two yaml-file-changed events emitted for the same
\* path are at least 300 ms apart, and an event for a watched .yaml/.yml path
\* that arrives 300 ms or more after the last emission for its path is
\* emitted; one arriving sooner is collapsed into that emission.
C21_Debounce == EmittedApart /\ ArrivalEmitted

\* two emissions for a.yaml exactly 300 ms apart, and a later event for it
\* collapsed
C21_Witness ==
    /\ Len(emitted) = 2
    /\ emitted[1].path = PathA /\ emitted[2].path = PathA
    /\ emitted[1].watcher = emitted[2].watcher
    /\ emitted[2].at - emitted[1].at = 300
    /\ lastEvent.ok /\ lastEvent.paths = <<PathA>>
    /\ lastEvent.watcher = emitted[2].watcher
    /\ lastEvent.at > emitted[2].at

\* the stored watcher, if any, is registered; the only other registered
\* watcher is the one watch_project is about to store
OneHandle ==
    /\ state # 0 => state \in watching
    /\ watching \subseteq ({state} \cup (IF watchPc = "store" THEN {watcher} ELSE {})) \ {0}
    /\ watchPc = "store" => watcher \in watching /\ watcher # state

\* what a call that ends does to the stored watcher
HandleLifecycle ==
    /\ (watchPc # "returned" /\ watchPc' = "returned") =>
          IF watchResult' = Some("Ok")
          THEN /\ state' = watcher /\ state' # 0 /\ state' # state
               /\ watching' = {state'}
          ELSE /\ watchResult' # NoText
               /\ state' = state
               /\ watching' = watching \ {watcher}
               /\ state # 0 => state \in watching'
    /\ (watchPc = "idle" /\ watchPc' = "idle" /\ state' # state) =>
          state' = 0 /\ watching' = {}

\* C30: at most one watcher is stored; a successful watch_project replaces it
\* and the replaced one stops, unwatch_project clears it, a failing
\* watch_project returns an error and leaves the stored watcher in place and
\* registered; in a replacement the new watcher is registered before the old
\* one is dropped.
C30_SingleHandle == [][OneHandle /\ OneHandle' /\ HandleLifecycle]_vars

\* a replacement under way: both watchers registered, and both have emitted
\* for the same path within the debounce window
C30_Witness ==
    /\ watchPc = "store" /\ state # 0
    /\ {state, watcher} \subseteq watching
    /\ \E i \in 1..Len(emitted), j \in 1..Len(emitted) :
          /\ emitted[i].watcher = state /\ emitted[j].watcher = watcher
          /\ emitted[i].path = emitted[j].path
          /\ emitted[j].at - emitted[i].at < 300

-----------------------------------------------------------------------------
(* Properties of the chart-release detector and the document classifier *)

HelmReturned ==
    /\ classPc = "returned"
    /\ classInput.op = "try_parse_helm_node"
    /\ classInput.chart = "file"

\* C22: for a chart descriptor with one dependency entry or more, whatever
\* list follows them, the node returned carries the chart name, the version
\* and the repository of the first entry: no later entry overwrites them.
C22_FirstDependency ==
    HelmReturned /\ classInput.deps # <<>> =>
        /\ classNode # <<>>
        /\ classNode[1].helm[1].chart_name = classInput.deps[1].name
        /\ classNode[1].helm[1].chart_version = classInput.deps[1].version
        /\ classNode[1].helm[1].repo = classInput.deps[1].repository

DocReturned ==
    /\ classPc = "returned"
    /\ classInput.op = "parse_yaml_doc"

\* C24: parse_yaml_doc returns a node exactly when the kind at the top level
\* of the document is one of the seven workload kinds; when the document has
\* a metadata.name too, the node's label is that name and its kind is the
\* document's kind; any other kind, or none, gives nothing.
C24_WorkloadsOnly ==
    DocReturned =>
        /\ classNode # <<>> <=>
               classInput.kind \in
                   {<<"D", "e", "p", "l", "o", "y", "m", "e", "n", "t">>,
                    <<"S", "t", "a", "t", "e", "f", "u", "l", "S", "e", "t">>,
                    <<"D", "a", "e", "m", "o", "n", "S", "e", "t">>,
                    <<"J", "o", "b">>,
                    <<"C", "r", "o", "n", "J", "o", "b">>,
                    <<"R", "e", "p", "l", "i", "c", "a", "S", "e", "t">>,
                    <<"P", "o", "d">>}
        /\ classNode # <<>> /\ classInput.name # <<>> =>
               /\ classNode[1].label = classInput.name
               /\ classNode[1].kind = classInput.kind

C24_Witness ==
    /\ DocReturned
    /\ classInput.kind = <<"C", "r", "o", "n", "J", "o", "b">>
    /\ classInput.style = "nested"
    /\ classInput.name = <<"a", "/", "b", ".", "c">>
    /\ classNode # <<>>
    /\ classNode[1].label = classInput.name
    /\ classNode[1].source = "raw"

-----------------------------------------------------------------------------
(* Properties of the walk *)

RECURSIVE Beneath(_, _)
\* every entry of a tree with its path
Beneath(path, entry) ==
    {[path |-> path, entry |-> entry]}
        \cup UNION {Beneath(path \o <<"/">> \o entry.entries[i].name, entry.entries[i]) :
                        i \in 1..Len(entry.entries)}

Under(path, dir) == starts_with(path, dir \o <<"/">>)

Visited == {walk.visited[k] : k \in 1..Len(walk.visited)}

Units == {walk.units[k] : k \in 1..Len(walk.units)}

\* the directory of a release gives its one node and is not gone into
ReleaseAlone ==
    /\ walk.units =
           IF walkInput.root_ok /\ walkInput.cache_ok /\ walkInput.chart = "release"
           THEN <<<<"/", "p", "/", "c", "a", "c", "h", "e">>>> ELSE <<>>
    /\ \A u \in Units :
        /\ Cardinality({k \in 1..Len(walk.nodes) : Under(walk.nodes[k].file_path, u)}) = 1
        /\ \A k \in 1..Len(walk.nodes) :
               Under(walk.nodes[k].file_path, u) => walk.nodes[k].source = "helm"
        /\ \A v \in Visited : v # u /\ ~Under(v, u)

\* each directory listed and each file opened is met once, and each of them
\* that cannot be read has its one error string
OneErrorEach ==
    \E all \in {Beneath(root_path, ProjectTree(walkInput))} :
        LET unreadable == {e \in all : e.path \in Visited /\ ~e.entry.readable}
        IN  /\ Cardinality(Visited) = Len(walk.visited)
            /\ Len(walk.errors) = Cardinality(unreadable)
            /\ \A e \in unreadable :
                   Cardinality({j \in 1..Len(walk.errors) :
                       \/ e.entry.is_dir /\ ends_with(walk.errors[j], <<" ">> \o e.path)
                       \/ ~e.entry.is_dir /\ starts_with(walk.errors[j], e.path \o <<":">>)}) = 1

\* the walk goes on: of every directory it could list, every directory not
\* ignored is gone into or is a release, and every manifest is opened
WalkGoesOn ==
    \E all \in {Beneath(root_path, ProjectTree(walkInput))} :
        /\ root_path \in Visited
        /\ \A d \in all :
               d.path \in Visited /\ d.entry.is_dir /\ d.entry.readable =>
                   \A i \in 1..Len(d.entry.entries) :
                       LET child == d.entry.entries[i]
                           path == d.path \o <<"/">> \o child.name
                       IN  IF child.is_dir
                           THEN Ignored(child.name) \/ path \in Units \/ path \in Visited
                           ELSE Qualifies(path) => path \in Visited

\* C25: a directory for which try_parse_helm_node yields a node gives the scan
\* that one node and nothing beneath it is visited; a directory or a file
\* that cannot be read adds one error string and the walk goes on with the
\* rest.
C25_ReleaseUnitsAndErrors ==
    walkPc = "returned" => ReleaseAlone /\ OneErrorEach /\ WalkGoesOn

C25_Witness ==
    /\ walkPc = "returned"
    /\ walkInput.chart = "release"
    /\ walkInput.first = 0
    /\ walkInput.root_ok /\ walkInput.apps_ok /\ walkInput.cache_ok /\ walkInput.top_ok
    /\ ~walkInput.web_ok /\ ~walkInput.job_ok
    /\ walk.units = <<<<"/", "p", "/", "c", "a", "c", "h", "e">>>>
    /\ Len(walk.errors) = 1
    /\ Len(walk.nodes) = 3
    /\ walk.nodes[1].source = "helm"
    /\ walk.nodes[3].label = <<"t", "w", "o">>

-----------------------------------------------------------------------------
(* Properties of delete_field_files *)

Occurrences(list, v) == Cardinality({i \in 1..Len(list) : list[i] = v})

ErrorsFor(path) ==
    Cardinality({j \in 1..Len(delResult.file_errors) :
                    starts_with(delResult.file_errors[j], path \o <<":", " ">>)})

\* each path given is sorted into one list, once for each time it is given
SortedOnce ==
    /\ Len(delResult.missing_files) + Len(delResult.deleted_files)
           + Len(delResult.file_errors) = Len(delInput.file_paths)
    /\ \A path \in DeletePaths :
           Occurrences(delInput.file_paths, path) =
               Occurrences(delResult.missing_files, path)
                   + Occurrences(delResult.deleted_files, path) + ErrorsFor(path)

Present == {i \in 1..Len(delInput.file_paths) : delResult.existed[i]}

\* for every path that is there, kubectl is called and the removal is tried,
\* whatever the other answered, and each failure is in the result
BothTried ==
    /\ Len(delResult.kubectl_calls) = Cardinality(Present)
    /\ Len(delResult.disk_calls) = Cardinality(Present)
    /\ \A i \in 1..Len(delInput.file_paths) :
        LET path == delInput.file_paths[i]
        IN  IF i \notin Present THEN Occurrences(delResult.missing_files, path) > 0
            ELSE /\ \E c \in 1..Len(delResult.kubectl_calls) :
                        delResult.kubectl_calls[c][3] = path
                 /\ Occurrences(delResult.disk_calls, path) > 0
                 /\ delInput.kube[i] = "failed" =>
                        /\ delResult.kubectl_error # <<>>
                        /\ contains(delResult.kubectl_error[1], path)
                 /\ delInput.rm[i] = "failed" => ErrorsFor(path) > 0
                 /\ delInput.rm[i] = "removed" =>
                        Occurrences(delResult.deleted_files, path) > 0

\* C26: the delete from the cluster and the delete from the disk fail apart
\* and both failures are reported: a failed cluster delete stops neither the
\* disk delete of the same path nor the work on the later paths, and every
\* path given ends in one of missing_files, deleted_files, file_errors.
C26_IndependentDeletes ==
    delPc = "returned" => SortedOnce /\ BothTried

C26_Witness ==
    /\ delPc = "returned"
    /\ delInput.file_paths = <<DeploymentPath, CachePath>>
    /\ delInput.kube = <<"failed", "deleted">>
    /\ delInput.rm = <<"removed", "failed">>
    /\ delResult.deleted_files = <<DeploymentPath>>
    /\ Len(delResult.file_errors) = 1
    /\ delResult.kubectl_error # <<>>
    /\ delResult.kubectl_output # <<>>
    /\ Len(delResult.kubectl_calls) = 2

\* C27: when a single file is deleted and its parent directory is left
\* empty, the parent directory is removed too; a parent directory that still
\* has entries is left in place.
C27_EmptyParentRemoved ==
    delPc = "returned" =>
        \A i \in Present :
            LET path == delInput.file_paths[i]
            IN  is_file(ProjectDisk, path) /\ delInput.rm[i] = "removed" =>
                    IF IsEmpty(delDisk, ParentOf(path))
                    THEN ~is_dir(delDisk, ParentOf(path))
                    ELSE is_dir(delDisk, ParentOf(path))

-----------------------------------------------------------------------------
(* Properties of deploy_image *)

\* the value asked for, or the default where none is asked for
Asked(field, default) ==
    IF imgReq.resources = <<>> THEN default
    ELSE IF imgReq.resources[1][field] = <<>> THEN default
    ELSE imgReq.resources[1][field][1]

Quoted(key, value) == key \o <<":", " ", "\"">> \o value \o <<"\"">>

\* the manifest has a resources block with these four values
HasResources(manifest, cpu_req, mem_req, cpu_lim, mem_lim) ==
    \E ls \in {lines(manifest)} :
        \E i \in 1..(Len(ls) - 6) :
            /\ trim(ls[i]) = <<"r", "e", "s", "o", "u", "r", "c", "e", "s", ":">>
            /\ trim(ls[i + 1]) = <<"r", "e", "q", "u", "e", "s", "t", "s", ":">>
            /\ trim(ls[i + 2]) = Quoted(<<"c", "p", "u">>, cpu_req)
            /\ trim(ls[i + 3]) = Quoted(<<"m", "e", "m", "o", "r", "y">>, mem_req)
            /\ trim(ls[i + 4]) = <<"l", "i", "m", "i", "t", "s", ":">>
            /\ trim(ls[i + 5]) = Quoted(<<"c", "p", "u">>, cpu_lim)
            /\ trim(ls[i + 6]) = Quoted(<<"m", "e", "m", "o", "r", "y">>, mem_lim)

\* C23: every Deployment built for an image carries the four resource
\* values, each the caller's where the caller gives one and the default
\* otherwise (requests 100m / 128Mi, limits 500m / 512Mi), also when the
\* request has no resources object.
C23_AllFourResources ==
    imgPc = "returned" =>
        HasResources(imgResult.manifests.deployment,
                     Asked("cpu_request", <<"1", "0", "0", "m">>),
                     Asked("mem_request", <<"1", "2", "8", "M", "i">>),
                     Asked("cpu_limit", <<"5", "0", "0", "m">>),
                     Asked("mem_limit", <<"5", "1", "2", "M", "i">>))

Applies == SelectSeq(imgCalls, LAMBDA c : c.call = "apply")

\* the kind written in a manifest handed to kubectl
KindOf(yaml) == extract_yaml_field(yaml, <<"k", "i", "n", "d">>)[1]

ApplyOrder == <<<<"N", "a", "m", "e", "s", "p", "a", "c", "e">>, <<"S", "e", "c", "r", "e", "t">>, <<"D", "e", "p", "l", "o", "y", "m", "e", "n", "t">>, <<"S", "e", "r", "v", "i", "c", "e">>>>

Rank(kind) == CHOOSE r \in 1..Len(ApplyOrder) : ApplyOrder[r] = kind

\* the kinds that are to be applied for the request, in the order claimed
ToApply ==
    SelectSeq(ApplyOrder, LAMBDA kind :
        \/ kind = ApplyOrder[1] /\ imgReq.create_namespace
        \/ kind = ApplyOrder[2] /\ imgReq.secret_env # <<>>
        \/ kind = ApplyOrder[3]
        \/ kind = ApplyOrder[4] /\ imgReq.ports # <<>>)

NamespaceApplyFailed ==
    /\ Applies # <<>>
    /\ KindOf(Applies[1].yaml) = ApplyOrder[1]
    /\ ~Applies[1].ok

\* C28: the manifests are applied in the order Namespace, Secret,
\* Deployment, Service; a failed apply of the namespace ends the operation
\* before any other apply, a failed apply of the Secret or of the Deployment
\* does not stop those that remain, and success is true exactly when every
\* apply issued succeeded.
C28_ApplyOrder ==
    /\ imgPc # "idle" =>
           \A i, j \in 1..Len(Applies) :
               i < j => Rank(KindOf(Applies[i].yaml)) < Rank(KindOf(Applies[j].yaml))
    /\ imgPc = "returned" =>
           /\ IF NamespaceApplyFailed THEN Len(Applies) = 1
              ELSE [i \in 1..Len(Applies) |-> KindOf(Applies[i].yaml)] = ToApply
           /\ imgResult.success <=> \A i \in 1..Len(Applies) : Applies[i].ok

C28_Witness ==
    /\ imgPc = "returned"
    /\ Len(Applies) = 4
    /\ Applies[1].ok /\ ~Applies[2].ok /\ ~Applies[3].ok /\ Applies[4].ok
    /\ KindOf(Applies[4].yaml) = ApplyOrder[4]
    /\ ~imgResult.success
    /\ imgResult.error # <<>>

-----------------------------------------------------------------------------
(* Properties of apply_replicas as a whole *)

\* the file has a document of that name whose replicas line holds the value
HoldsReplicas(content, node_label, replicas) ==
    \E docs \in {split(content, str_separator)} :
        \E i \in 1..Len(docs) :
            /\ DocMatches(docs[i], node_label)
            /\ extract_replicas(docs[i]) = Some(Chars(replicas))

\* C29: apply_replicas does not roll back. kubectl apply is issued at most
\* once and only after the patch succeeded; the file is written before it,
\* so when the patch succeeds and the apply fails the file holds the new
\* replica value and the operation returns an error.
C29_NoRollback ==
    PatchReturned =>
        /\ Len(patchCall.issued) <= 1
        /\ patchCall.issued # <<>> <=> patchCall.ok
        /\ patchCall.issued # <<>> =>
               HoldsReplicas(patchFile, patchCall.label, patchCall.replicas)
        /\ patchCall.issued # <<>> /\ ~patchCall.result.ok =>
               /\ HoldsReplicas(patchFile, patchCall.label, patchCall.replicas)
               /\ patchFile = PatchContent(patchCall.before, patchCall.label,
                                           patchCall.replicas).text

C29_Witness ==
    /\ PatchReturned
    /\ patchCall.issued = <<ApplyEntry>>
    /\ ~patchCall.result.ok
    /\ patchFile # patchCall.before
    /\ patchCall.replicas = 10
    /\ HoldsReplicas(patchFile, patchCall.label, 10)
    /\ ~HoldsReplicas(patchCall.before, patchCall.label, 10)

====
